---------------------------- MODULE Spec2Model ----------------------------
(***************************************************************************)
(* TrustonicReporting ingestion pipeline.                                  *)
(*                                                                         *)
(* The module models, from the TypeScript sources,                         *)
(*   - config/columnMapping.ts : header alias resolution, record validity, *)
(*     status normalisation;                                               *)
(*   - services/excelParser.ts : header-row location, row extraction,      *)
(*     value conversion, fingerprints;                                     *)
(*   - services/databaseLoader.ts and config/database.ts : the tables      *)
(*     processed_files, devices, inventory, automation_logs and the        *)
(*     statements run against them;                                        *)
(*   - services/fileWatcher.ts and api/server.ts : processFile, its        *)
(*     callers (watcher 'add' / 'change', POST /process/file,              *)
(*     POST /process/folder).                                              *)
(*                                                                         *)
(* Strings are TLA+ strings; a character is a string of length 1.          *)
(* Array and column indexes are 1-based here (0-based in the source).      *)
(* SHA-256 is taken as injective: a digest is modelled by the string (or   *)
(* the content identifier) that is hashed.                                 *)
(***************************************************************************)
EXTENDS Integers, Sequences, FiniteSets, TLC

VARIABLES
    disk,       \* path -> content identifier of the bytes now on disk
    runs,       \* slot -> one processFile invocation (a record with its pc)
    files,      \* reporting.processed_files, in insertion order
    devices,    \* reporting.devices, in insertion order
    inventory,  \* reporting.inventory, in insertion order
    logs,       \* reporting.automation_logs, in insertion order
    started,    \* number of processFile invocations made so far
    writes,     \* number of times a file was rewritten on disk
    faults,     \* number of storage calls that have thrown
    overlapped  \* whether two invocations have been in flight together

vars == <<disk, runs, files, devices, inventory, logs, started, writes, faults, overlapped>>

NULL == "<null>"

(***************************************************************************)
(* String helpers (String.prototype.trim / toLowerCase / includes).        *)
(***************************************************************************)
Upper == "ABCDEFGHIJKLMNOPQRSTUVWXYZÁÉÍÑÓÚ"

Lower == "abcdefghijklmnopqrstuvwxyzáéíñóú"

Digits == "0123456789"

CharAt(s, i) == SubSeq(s, i, i)

IndexIn(c, alphabet) ==
    IF \E i \in 1..Len(alphabet) : CharAt(alphabet, i) = c
    THEN CHOOSE i \in 1..Len(alphabet) : CharAt(alphabet, i) = c
    ELSE 0

LowerChar(c) ==
    LET i == IndexIn(c, Upper) IN IF i = 0 THEN c ELSE CharAt(Lower, i)

UpperChar(c) ==
    LET i == IndexIn(c, Lower) IN IF i = 0 THEN c ELSE CharAt(Upper, i)

RECURSIVE toLowerCase(_)
toLowerCase(s) ==
    IF s = "" THEN "" ELSE LowerChar(Head(s)) \o toLowerCase(Tail(s))

IsSpace(c) == c \in {" ", "\t", "\n", "\r"}

IsDigit(c) == IndexIn(c, Digits) # 0

RECURSIVE trimStart(_)
trimStart(s) ==
    IF s # "" /\ IsSpace(Head(s)) THEN trimStart(Tail(s)) ELSE s

RECURSIVE trimEnd(_)
trimEnd(s) ==
    IF s # "" /\ IsSpace(CharAt(s, Len(s)))
    THEN trimEnd(SubSeq(s, 1, Len(s) - 1))
    ELSE s

trim(s) == trimEnd(trimStart(s))

startsWith(s, p) == Len(s) >= Len(p) /\ SubSeq(s, 1, Len(p)) = p

includes(s, sub) ==
    \E i \in 1..(Len(s) - Len(sub) + 1) : SubSeq(s, i, i + Len(sub) - 1) = sub

(***************************************************************************)
(* config/columnMapping.ts                                                 *)
(***************************************************************************)
\* canonical field -> accepted header spellings, in the table's order
COLUMN_ALIASES == <<
    <<"brand", <<"Brand", "Marca", "OEM">>>>,
    <<"device", <<"Market Name", "Device Name", "Dispositivo", "Nombre Comercial">>>>,
    <<"device_type", <<"Device", "Type", "Tipo", "Tipo de Dispositivo">>>>,
    <<"project", <<"Project", "Proyecto", "Project Name">>>>,
    <<"model", <<"Model", "Modelo", "Model Name", "Model_Name">>>>,
    <<"build", <<"Build", "Build Number", "Version">>>>,
    <<"tac", <<"TAC", "Type Allocation Code">>>>,
    <<"approved_date", <<"Approved Dated", "Approved Date", "Fecha Aprobación", "Approval Date">>>>,
    <<"dual_sim", <<"Dual SIM (Y/N)", "Dual SIM", "DualSIM", "Dual_SIM">>>>,
    <<"target_region", <<"Target Region", "Region", "Región", "Target_Region">>>>,
    <<"target_customer", <<"Target Customer", "Customer", "Cliente", "Target_Customer", "Costumer", "Costumer Name">>>>,
    <<"android_version", <<"Android version", "Android Version", "Android", "OS Version">>>>,
    <<"volume_forecast", <<"Volume Forecast", "Forecast", "Volume", "Volume_Forecast">>>>,
    <<"target_solution", <<"Target Solution (DPC/DLC)", "Target Solution", "Solution", "DPC/DLC">>>>,
    <<"integration_requirement", <<"Integration Requirement", "Integration Requirements", "Requirements">>>>,
    <<"initial_sw_schedule", <<"initial SW build schedule", "Initial SW Schedule", "SW Build Schedule">>>>,
    <<"commercial_schedule", <<"Commercial build schedule for Massive", "Commercial Schedule", "Mass Production Schedule">>>>,
    <<"sw_freeze_date", <<"SW Freeze date", "SW Freeze Date", "Freeze Date">>>>,
    <<"initial_shipment_date", <<"Initial Shipment date", "Initial Shipment Date", "First Shipment">>>>,
    <<"initial_selling_date", <<"Initial Selling date", "Initial Selling Date", "Selling Date">>>>,
    <<"launch_date", <<"Launch date", "Launch Date", "Launch">>>>,
    <<"sample_shipped", <<"Sample Shipped", "Samples Shipped", "Sample Status">>>>,
    <<"priority", <<"Priority", "Prioridad">>>>,
    <<"status", <<"Status", "Estado", "Validation Status">>>>,
    <<"comments", <<"Comments", "Comentarios", "Notes", "Notas", "Comment", "Observaciones">>>>,
    <<"tester", <<"Tester", "QA", "Test Engineer">>>>,
    <<"contact", <<"Contact", "Contacto", "Contact Person">>>>,
    <<"in_inventory", <<"In inventory", "En Inventario", "Inventory", "Stock", "In Inventory (Yes/No)">>>>,
    <<"nm_flow", <<"NM-Flow", "Flow", "Network Manager Flow", "NM Flow">>>>,
    <<"solution_type", <<"DPC/DLC", "DPC-DLC", "DPC DLC", "Solution Type", "Tipo de Solución", "Solution_Type", "DPC_DLC">>>>,
    <<"device_name", <<"Device Name Inventory", "Device Name", "Nombre del Dispositivo">>>>,
    <<"marketing_name", <<"Marketing Name", "Nombre Comercial">>>>,
    <<"serial_number", <<"Serial Number", "S/N", "Número de Serie", "Serial_Number">>>>,
    <<"imei1", <<"IMEI 1", "IMEI_1", "Imei 1">>>>,
    <<"imei2", <<"IMEI 2", "IMEI_2", "Imei 2">>>>,
    <<"received_on", <<"Received On", "Fecha de Recibido", "Received">>>>,
    <<"returned_on", <<"Returned On", "Fecha de Devolución", "Returned">>>>,
    <<"remark", <<"Remark", "Observación", "Comentario Inventario", "Remarks">>>>,
    <<"inventory_comments", <<"Comments", "Comentarios", "Notes", "Inventory Comments">>>>
>>

IGNORED_COLUMNS == <<"Status Options", "Unnamed">>

REQUIRED_FIELDS == <<"device", "model">>

VALID_STATUS_VALUES == <<"Not Started", "Testing", "Completed", "Issue", "Cancelled">>

\* the alias table with every spelling lowercased (alias.toLowerCase())
LowerAliases ==
    [e \in 1..Len(COLUMN_ALIASES) |->
        [a \in 1..Len(COLUMN_ALIASES[e][2]) |-> toLowerCase(COLUMN_ALIASES[e][2][a])]]

\* a lookup that gives the last field of the table with a matching alias
findFieldNameLastField(excelColumn) ==
    LET normalizedColumn == toLowerCase(trim(excelColumn))
        hits == {e \in 1..Len(COLUMN_ALIASES) :
                    \E a \in 1..Len(LowerAliases[e]) :
                        LowerAliases[e][a] = normalizedColumn}
    IN  IF \E g \in 1..Len(IGNORED_COLUMNS) :
              includes(normalizedColumn, toLowerCase(IGNORED_COLUMNS[g]))
        THEN NULL
        ELSE IF hits = {} THEN NULL
        ELSE COLUMN_ALIASES[CHOOSE e \in hits : \A f \in hits : e >= f][1]

\* the first canonical field, in table order, with an alias equal to the
\* trimmed lowercased header; NULL for an ignored or unknown header
findFieldName(excelColumn) ==
    LET normalizedColumn == toLowerCase(trim(excelColumn))
        hits == {e \in 1..Len(COLUMN_ALIASES) :
                    \E a \in 1..Len(LowerAliases[e]) :
                        LowerAliases[e][a] = normalizedColumn}
    IN  IF \E g \in 1..Len(IGNORED_COLUMNS) :
              includes(normalizedColumn, toLowerCase(IGNORED_COLUMNS[g]))
        THEN NULL
        ELSE IF hits = {} THEN NULL
        ELSE COLUMN_ALIASES[CHOOSE e \in hits : \A f \in hits : e <= f][1]

\* column position -> canonical field, for the columns that resolve
createColumnMap(headerRow) ==
    LET cols == {i \in 1..Len(headerRow) :
                    headerRow[i] # "" /\ findFieldName(headerRow[i]) # NULL}
    IN  [i \in cols |-> findFieldName(headerRow[i])]

mapSize(columnMap) == Cardinality(DOMAIN columnMap)

TRUE_ == "<true>"

FALSE_ == "<false>"

\* JavaScript truthiness of a cell-derived value
Truthy(v) == v \notin {NULL, "", FALSE_}

\* a validation that keeps every record
isValidRecordAlways(record) == TRUE

\* a record is kept only with a non-empty device or model
isValidRecord(record) ==
    LET hasDevice == "device" \in DOMAIN record /\ Truthy(record["device"])
                        /\ trim(record["device"]) # ""
        hasModel == "model" \in DOMAIN record /\ Truthy(record["model"])
                        /\ trim(record["model"]) # ""
    IN  hasDevice \/ hasModel

\* a normalisation that keeps a status it does not know
normalizeStatusKeeping(value) ==
    IF ~Truthy(value) \/ value = TRUE_ THEN NULL
    ELSE LET normalized == trim(value)
             found == {k \in 1..Len(VALID_STATUS_VALUES) :
                          toLowerCase(VALID_STATUS_VALUES[k]) = toLowerCase(normalized)}
         IN  IF found = {} THEN normalized
             ELSE VALID_STATUS_VALUES[CHOOSE k \in found : \A j \in found : k <= j]

\* the canonical spelling of a status, NULL when it is none of the five
normalizeStatus(value) ==
    IF ~Truthy(value) \/ value = TRUE_ THEN NULL
    ELSE LET normalized == trim(value)
             found == {k \in 1..Len(VALID_STATUS_VALUES) :
                          toLowerCase(VALID_STATUS_VALUES[k]) = toLowerCase(normalized)}
         IN  IF found = {} THEN NULL
             ELSE VALID_STATUS_VALUES[CHOOSE k \in found : \A j \in found : k <= j]

(***************************************************************************)
(* services/excelParser.ts : value conversion                              *)
(***************************************************************************)
\* characters in UTF-16 code-unit order (the order Array.prototype.sort uses)
CodeOrder ==
    "\t\n\r !#$%&'()*+,-./0123456789:;<=>?@ABCDEFGHIJKLMNOPQRSTUVWXYZ[]^_abcdefghijklmnopqrstuvwxyz{|}~ÁÉÍÑÓÚáéíñóú"

CharCode(c) == IndexIn(c, CodeOrder)

\* a < b as JavaScript compares strings
RECURSIVE StrLess(_, _)
StrLess(a, b) ==
    IF b = "" THEN FALSE
    ELSE IF a = "" THEN TRUE
    ELSE IF Head(a) = Head(b) THEN StrLess(Tail(a), Tail(b))
    ELSE CharCode(Head(a)) < CharCode(Head(b))

RECURSIVE InsertSorted(_, _)
InsertSorted(x, sorted) ==
    IF sorted = <<>> THEN <<x>>
    ELSE IF StrLess(x, Head(sorted)) THEN <<x>> \o sorted
    ELSE <<Head(sorted)>> \o InsertSorted(x, Tail(sorted))

\* Array.prototype.sort() on strings (stable, ascending)
RECURSIVE sort(_)
sort(xs) ==
    IF xs = <<>> THEN <<>>
    ELSE InsertSorted(xs[Len(xs)], sort(SubSeq(xs, 1, Len(xs) - 1)))

RECURSIVE join(_, _)
join(xs, sep) ==
    IF xs = <<>> THEN ""
    ELSE IF Len(xs) = 1 THEN xs[1]
    ELSE xs[1] \o sep \o join(Tail(xs), sep)

RECURSIVE SpaceRun(_)
SpaceRun(s) == IF s # "" /\ IsSpace(Head(s)) THEN 1 + SpaceRun(Tail(s)) ELSE 0

\* length of the match of /,|\s+and\s+|&|\/|\n/i at the head of s, 0 for none
DelimiterAt(s) ==
    LET w1 == SpaceRun(s)
        rest == SubSeq(s, w1 + 1, Len(s))
        w2 == IF Len(rest) >= 3 THEN SpaceRun(SubSeq(rest, 4, Len(rest))) ELSE 0
    IN  IF s = "" THEN 0
        ELSE IF Head(s) = "," THEN 1
        ELSE IF w1 >= 1 /\ Len(rest) >= 3
                /\ toLowerCase(SubSeq(rest, 1, 3)) = "and" /\ w2 >= 1
             THEN w1 + 3 + w2
        ELSE IF Head(s) \in {"&", "/", "\n"} THEN 1
        ELSE 0

\* val.split(/,|\s+and\s+|&|\/|\n/i) ; cur is the part being read
RECURSIVE SplitRegion(_, _)
SplitRegion(s, cur) ==
    IF s = "" THEN <<cur>>
    ELSE LET m == DelimiterAt(s)
         IN  IF m > 0 THEN <<cur>> \o SplitRegion(SubSeq(s, m + 1, Len(s)), "")
             ELSE SplitRegion(Tail(s), cur \o Head(s))

\* s.split(c) for a one-character separator
RECURSIVE SplitChar(_, _, _)
SplitChar(s, c, cur) ==
    IF s = "" THEN <<cur>>
    ELSE IF Head(s) = c THEN <<cur>> \o SplitChar(Tail(s), c, "")
    ELSE SplitChar(Tail(s), c, cur \o Head(s))

\* part.split(/\s+/) of a trimmed, non-empty part
RECURSIVE SplitWords(_, _)
SplitWords(s, cur) ==
    IF s = "" THEN <<cur>>
    ELSE IF IsSpace(Head(s)) THEN <<cur>> \o SplitWords(trimStart(s), "")
    ELSE SplitWords(Tail(s), cur \o Head(s))

\* word.charAt(0).toUpperCase() + word.slice(1).toLowerCase()
ProperCase(word) ==
    IF word = "" THEN "" ELSE UpperChar(Head(word)) \o toLowerCase(Tail(word))

typoMap == <<
    <<"bhamas", "Bahamas">>,
    <<"bhahamas", "Bahamas">>,
    <<"peru", "Peru">>,
    <<"mxico", "Mexico">>,
    <<"mexico", "Mexico">>,
    <<"panam", "Panama">>,
    <<"panama", "Panama">>,
    <<"colomiba", "Colombia">>,
    <<"dominicana", "República Dominicana">>,
    <<"jamaica and barbados", "Jamaica, Barbados">>,
    <<"om", "Latam Om">>,
    <<"latam om", "Latam Om">>
>>

\* typoMap[lowPart], NULL when the key is absent
TypoLookup(lowPart) ==
    IF \E k \in 1..Len(typoMap) : typoMap[k][1] = lowPart
    THEN typoMap[CHOOSE k \in 1..Len(typoMap) : typoMap[k][1] = lowPart][2]
    ELSE NULL

\* one split segment: '' when shorter than 2, its correction, or proper case
NormalizePart(s) ==
    LET part == trim(s)
        lowPart == toLowerCase(part)
        words == SplitWords(part, "")
    IN  IF Len(part) < 2 THEN ""
        ELSE IF TypoLookup(lowPart) # NULL THEN TypoLookup(lowPart)
        ELSE join([w \in 1..Len(words) |-> ProperCase(words[w])], " ")

RECURSIVE FilterNonEmpty(_)
FilterNonEmpty(xs) ==
    IF xs = <<>> THEN <<>>
    ELSE IF Head(xs) = "" THEN FilterNonEmpty(Tail(xs))
    ELSE <<Head(xs)>> \o FilterNonEmpty(Tail(xs))

\* a normalization that keeps the segments in the order of the cell
normalizeRegionAndCustomerUnsorted(val) ==
    IF val = "" THEN val
    ELSE LET parts == SplitRegion(val, "")
         IN  join(FilterNonEmpty([p \in 1..Len(parts) |-> NormalizePart(parts[p])]), ", ")

normalizeRegionAndCustomer(val) ==
    IF val = "" THEN val
    ELSE LET parts == SplitRegion(val, "")
         IN  join(sort(FilterNonEmpty([p \in 1..Len(parts) |-> NormalizePart(parts[p])])), ", ")

\* s.replace(/1\.o/g, '1.0').replace(/1\.O/g, '1.0')
RECURSIVE FixVersion(_)
FixVersion(s) ==
    IF s = "" THEN ""
    ELSE IF Len(s) >= 3 /\ SubSeq(s, 1, 3) \in {"1.o", "1.O"}
         THEN "1.0" \o FixVersion(SubSeq(s, 4, Len(s)))
    ELSE Head(s) \o FixVersion(Tail(s))

\* a normalization of the solution that sorts the segments
normalizeSolutionSorted(trimmed) ==
    LET segs == SplitChar(trimmed, ",", "")
    IN  join(sort(FilterNonEmpty([k \in 1..Len(segs) |-> FixVersion(trim(segs[k]))])), ", ")

normalizeSolution(trimmed) ==
    LET segs == SplitChar(trimmed, ",", "")
    IN  join(FilterNonEmpty([k \in 1..Len(segs) |-> FixVersion(trim(segs[k]))]), ", ")

AllDigits(s) == \A i \in 1..Len(s) : IsDigit(CharAt(s, i))

padStart2(s) == IF Len(s) < 2 THEN "0" \o s ELSE s

\* /^\d{4}-\d{2}-\d{2}$/
IsIsoDate(str) ==
    /\ Len(str) = 10
    /\ CharAt(str, 5) = "-" /\ CharAt(str, 8) = "-"
    /\ AllDigits(SubSeq(str, 1, 4)) /\ AllDigits(SubSeq(str, 6, 7))
    /\ AllDigits(SubSeq(str, 9, 10))

\* the three groups of /^(\d{1,2})[/-](\d{1,2})[/-](\d{4})$/, <<>> for no match
DmyMatch(str) ==
    LET cuts == {c \in (1..2) \X (1..2) :
                    /\ Len(str) = c[1] + c[2] + 6
                    /\ AllDigits(SubSeq(str, 1, c[1]))
                    /\ CharAt(str, c[1] + 1) \in {"/", "-"}
                    /\ AllDigits(SubSeq(str, c[1] + 2, c[1] + 1 + c[2]))
                    /\ CharAt(str, c[1] + c[2] + 2) \in {"/", "-"}
                    /\ AllDigits(SubSeq(str, c[1] + c[2] + 3, Len(str)))}
    IN  IF cuts = {} THEN <<>>
        ELSE LET c == CHOOSE c \in cuts : TRUE
             IN  <<SubSeq(str, 1, c[1]),
                   SubSeq(str, c[1] + 2, c[1] + 1 + c[2]),
                   SubSeq(str, c[1] + c[2] + 3, Len(str))>>

\* new Date(str) re-serialised from its UTC components, NULL for an Invalid
\* Date.  Only the ISO date-time form is modelled as parseable; every other
\* string that reaches the fallback is taken as an Invalid Date.
DateFallback(str) ==
    IF Len(str) >= 11 /\ IsIsoDate(SubSeq(str, 1, 10)) /\ CharAt(str, 11) = "T"
       /\ CharAt(str, Len(str)) = "Z"
    THEN SubSeq(str, 1, 10)
    ELSE NULL

\* a conversion that reads D/M/YYYY as month, day, year
parseDateMonthFirst(value) ==
    LET str == trim(value)
        dmyMatch == DmyMatch(str)
    IN  IF str = "" THEN NULL
        ELSE IF IsIsoDate(str) THEN str
        ELSE IF dmyMatch # <<>>
             THEN dmyMatch[3] \o "-" \o padStart2(dmyMatch[1]) \o "-" \o padStart2(dmyMatch[2])
        ELSE DateFallback(str)

parseDate(value) ==
    LET str == trim(value)
        dmyMatch == DmyMatch(str)
    IN  IF str = "" THEN NULL
        ELSE IF IsIsoDate(str) THEN str
        ELSE IF dmyMatch # <<>>
             THEN dmyMatch[3] \o "-" \o padStart2(dmyMatch[2]) \o "-" \o padStart2(dmyMatch[1])
        ELSE DateFallback(str)

Bool(b) == IF b THEN TRUE_ ELSE FALSE_

convertValue(fieldName, value) ==
    LET trimmed == trim(value)
    IN  IF fieldName \in {"target_region", "target_customer"}
        THEN normalizeRegionAndCustomer(trimmed)
        ELSE IF fieldName = "target_solution" THEN normalizeSolution(trimmed)
        ELSE IF includes(fieldName, "date") \/ includes(fieldName, "schedule")
             THEN parseDate(trimmed)
        ELSE IF fieldName = "dual_sim"
             THEN Bool(toLowerCase(trimmed) \in {"y", "yes", "true"} \/ trimmed = "1")
        ELSE trimmed

(***************************************************************************)
(* services/excelParser.ts : sheets                                        *)
(*                                                                         *)
(* A worksheet is [name, rows, raises]: rows[i] is the sequence of the     *)
(* cell texts of row i (what getRowValues returns for it), rowCount is     *)
(* Len(rows), and raises is the set of row numbers on which the row        *)
(* transformation throws.  A workbook is [readable, sheets].               *)
(***************************************************************************)
getRowValues(worksheet, i) ==
    IF i \in 1..Len(worksheet.rows) THEN worksheet.rows[i] ELSE <<>>

\* values.every(v => !v || String(v).trim() === '')
IsBlankRow(values) == \A c \in 1..Len(values) : trim(values[c]) = ""

MinOf(S) == CHOOSE x \in S : \A y \in S : x <= y

\* columnMap.forEach over the mapped columns in insertion (column) order
RECURSIVE MapRow(_, _, _, _)
MapRow(values, columnMap, cols, record) ==
    IF cols = {} THEN record
    ELSE LET colIndex == MinOf(cols)
             fieldName == columnMap[colIndex]
             value == IF colIndex <= Len(values) THEN values[colIndex] ELSE ""
             converted == IF trim(value) # "" THEN convertValue(fieldName, value)
                          ELSE NULL
             keys == DOMAIN record \cup {fieldName}
         IN  MapRow(values, columnMap, cols \ {colIndex},
                    [k \in keys |-> IF k = fieldName THEN converted ELSE record[k]])

mapRowToRecord(values, columnMap) ==
    MapRow(values, columnMap, DOMAIN columnMap, <<>>)

\* record[f] || '' , lowercased and trimmed
KeyPart(record, f) ==
    IF f \in DOMAIN record /\ Truthy(record[f])
    THEN trim(toLowerCase(record[f]))
    ELSE ""

DeviceKeyFields ==
    <<"device", "model", "tac", "build", "target_region", "target_solution",
      "target_customer">>

\* a fingerprint that also digests the comments
generateDeviceHashWithComments(record) ==
    join([k \in 1..Len(DeviceKeyFields) |-> KeyPart(record, DeviceKeyFields[k])], "|")
        \o "|" \o KeyPart(record, "comments")

\* the string that is digested; SHA-256 is taken as injective
generateDeviceHash(record) ==
    join([k \in 1..Len(DeviceKeyFields) |-> KeyPart(record, DeviceKeyFields[k])], "|")

InventoryKeyFields ==
    <<"brand", "model", "serial_number", "imei1", "imei2", "solution_type",
      "target_customer", "nm_flow">>

generateInventoryHash(item) ==
    join([k \in 1..Len(InventoryKeyFields) |-> KeyPart(item, InventoryKeyFields[k])], "|")

\* r with field k set to v
WithField(r, k, v) ==
    [f \in DOMAIN r \cup {k} |-> IF f = k THEN v ELSE r[f]]

\* a header search that does not stop at row 5
HeaderRowIndexAnyRow(worksheet, minSize) ==
    LET ok == {i \in 1..Len(worksheet.rows) :
                    mapSize(createColumnMap(getRowValues(worksheet, i))) >= minSize}
    IN  IF ok = {} THEN 0 ELSE MinOf(ok)

\* the first of rows 1..5 whose column map has at least minSize entries, else 0
HeaderRowIndex(worksheet, minSize) ==
    LET ok == {i \in 1..5 : mapSize(createColumnMap(getRowValues(worksheet, i))) >= minSize}
    IN  IF ok = {} THEN 0 ELSE MinOf(ok)

\* a row transformation in which the brand of the file name only fills in for
\* a row without a brand of its own
DeviceOfRowOwnBrand(values, columnMap, defaultBrand, sheetName, rowIndex) ==
    LET Hashed(record) ==
            WithField(WithField(WithField(record,
                "device_hash", generateDeviceHash(record)),
                "sheet_name", sheetName),
                "row_index", rowIndex)
        Branded(record) ==
            Hashed(IF Truthy(defaultBrand)
                      /\ ~("brand" \in DOMAIN record /\ Truthy(record["brand"]))
                   THEN WithField(record, "brand", defaultBrand)
                   ELSE record)
        Checked(record) ==
            IF ~isValidRecord(record) THEN <<>>
            ELSE <<Branded(IF "status" \in DOMAIN record /\ Truthy(record["status"])
                           THEN WithField(record, "status",
                                          normalizeStatus(record["status"]))
                           ELSE record)>>
    IN  Checked(mapRowToRecord(values, columnMap))

\* the body of the try block of parseDevicesSheet for one non-blank row:
\* <<>> when the row is dropped, otherwise <<device>>
DeviceOfRow(values, columnMap, defaultBrand, sheetName, rowIndex) ==
    LET Hashed(record) ==
            WithField(WithField(WithField(record,
                "device_hash", generateDeviceHash(record)),
                "sheet_name", sheetName),
                "row_index", rowIndex)
        Branded(record) ==
            Hashed(IF Truthy(defaultBrand)
                   THEN WithField(record, "brand", defaultBrand)
                   ELSE record)
        Checked(record) ==
            IF ~isValidRecord(record) THEN <<>>
            ELSE <<Branded(IF "status" \in DOMAIN record /\ Truthy(record["status"])
                           THEN WithField(record, "status",
                                          normalizeStatus(record["status"]))
                           ELSE record)>>
    IN  Checked(mapRowToRecord(values, columnMap))

ParseErrorOf(sheetName, rowIndex, message) ==
    [sheet |-> sheetName, row |-> rowIndex, message |-> message]

NoHeadersDevices == "No se encontraron encabezados válidos en la hoja"

NoHeadersInventory == "No se encontraron encabezados de inventario válidos"

RowRaised == "Error desconocido"

\* a data-row loop that drops a row whose transformation throws without
\* recording a ParseError
RECURSIVE DeviceRowsSilent(_, _, _, _)
DeviceRowsSilent(worksheet, columnMap, defaultBrand, rowIndex) ==
    IF rowIndex > Len(worksheet.rows) THEN [devices |-> <<>>, errors |-> <<>>]
    ELSE LET values == getRowValues(worksheet, rowIndex)
             rest == DeviceRowsSilent(worksheet, columnMap, defaultBrand, rowIndex + 1)
         IN  IF IsBlankRow(values) \/ rowIndex \in worksheet.raises THEN rest
             ELSE [rest EXCEPT !.devices =
                       DeviceOfRow(values, columnMap, defaultBrand,
                                   worksheet.name, rowIndex) \o @]

\* the data-row loop of parseDevicesSheet from rowIndex to rowCount
RECURSIVE DeviceRows(_, _, _, _)
DeviceRows(worksheet, columnMap, defaultBrand, rowIndex) ==
    IF rowIndex > Len(worksheet.rows) THEN [devices |-> <<>>, errors |-> <<>>]
    ELSE LET values == getRowValues(worksheet, rowIndex)
             rest == DeviceRows(worksheet, columnMap, defaultBrand, rowIndex + 1)
         IN  IF IsBlankRow(values) THEN rest
             ELSE IF rowIndex \in worksheet.raises
                  THEN [rest EXCEPT !.errors =
                            <<ParseErrorOf(worksheet.name, rowIndex, RowRaised)>> \o @]
             ELSE [rest EXCEPT !.devices =
                       DeviceOfRow(values, columnMap, defaultBrand,
                                   worksheet.name, rowIndex) \o @]

parseDevicesSheet(worksheet, defaultBrand) ==
    LET From(headerRowIndex) ==
            IF headerRowIndex = 0
            THEN [devices |-> <<>>,
                  errors |-> <<ParseErrorOf(worksheet.name, 0, NoHeadersDevices)>>]
            ELSE DeviceRows(worksheet,
                            createColumnMap(getRowValues(worksheet, headerRowIndex)),
                            defaultBrand, headerRowIndex + 1)
    IN  From(HeaderRowIndex(worksheet, 3))

\* the field of the item that a mapped inventory column is stored in;
\* "metadata" for a column with no field of its own
InventoryTarget(fieldName) ==
    IF fieldName \in {"solution_type", "target_solution"} THEN "solution_type"
    ELSE IF fieldName \in {"comments", "inventory_comments"} THEN "comments"
    ELSE IF fieldName \in {"in_inventory", "device_name", "model", "tac", "nm_flow",
                           "brand", "marketing_name", "serial_number", "imei1",
                           "imei2", "received_on", "returned_on", "remark",
                           "target_customer"}
         THEN fieldName
    ELSE "metadata"

InventoryValue(fieldName, stringValue) ==
    IF fieldName = "in_inventory"
    THEN Bool(toLowerCase(stringValue) \in {"yes", "y", "si", "s", "true", "1"})
    ELSE IF fieldName = "target_customer" THEN normalizeRegionAndCustomer(stringValue)
    ELSE stringValue

\* columnMap.forEach of parseInventorySheet, in column order
RECURSIVE InventoryCells(_, _, _, _)
InventoryCells(values, columnMap, cols, item) ==
    IF cols = {} THEN item
    ELSE LET colIndex == MinOf(cols)
             fieldName == columnMap[colIndex]
             stringValue == IF colIndex <= Len(values) THEN trim(values[colIndex]) ELSE ""
             target == InventoryTarget(fieldName)
             next == IF stringValue = "" THEN item
                     ELSE IF target = "metadata"
                          THEN WithField(item, "metadata",
                                   WithField(item["metadata"], fieldName, stringValue))
                     ELSE WithField(item, target, InventoryValue(fieldName, stringValue))
         IN  InventoryCells(values, columnMap, cols \ {colIndex}, next)

\* the body of the try block of parseInventorySheet for one non-blank row
ItemOfRow(values, columnMap) ==
    LET Kept(item) ==
            IF \E f \in {"model", "tac", "device_name", "serial_number", "imei1"} :
                    f \in DOMAIN item /\ Truthy(item[f])
            THEN <<item>>
            ELSE <<>>
        Hashed(item) ==
            Kept(WithField(item, "inventory_hash", generateInventoryHash(item)))
    IN  Hashed(InventoryCells(values, columnMap, DOMAIN columnMap,
                              [metadata |-> <<>>]))

RECURSIVE InventoryRows(_, _, _)
InventoryRows(worksheet, columnMap, rowIndex) ==
    IF rowIndex > Len(worksheet.rows) THEN [items |-> <<>>, errors |-> <<>>]
    ELSE LET values == getRowValues(worksheet, rowIndex)
             rest == InventoryRows(worksheet, columnMap, rowIndex + 1)
         IN  IF IsBlankRow(values) THEN rest
             ELSE IF rowIndex \in worksheet.raises
                  THEN [rest EXCEPT !.errors =
                            <<ParseErrorOf(worksheet.name, rowIndex, RowRaised)>> \o @]
             ELSE [rest EXCEPT !.items = ItemOfRow(values, columnMap) \o @]

parseInventorySheet(worksheet) ==
    LET From(headerRowIndex) ==
            IF headerRowIndex = 0
            THEN [items |-> <<>>,
                  errors |-> <<ParseErrorOf(worksheet.name, 0, NoHeadersInventory)>>]
            ELSE InventoryRows(worksheet,
                               createColumnMap(getRowValues(worksheet, headerRowIndex)),
                               headerRowIndex + 1)
    IN  From(HeaderRowIndex(worksheet, 2))

\* a classifier that takes only the sheet named "inventory"
IsInventorySheetExact(name) == toLowerCase(name) = "inventory"

\* the Sheet Classifier of parseExcelFile
IsInventorySheet(name) ==
    includes(toLowerCase(name), "inventory") \/ includes(toLowerCase(name), "inventario")

\* workbook.eachSheet(...) over the sheets from position k on
RECURSIVE EachSheet(_, _, _)
EachSheet(sheets, defaultBrand, k) ==
    LET PushInventory(result, rest) ==
            [rest EXCEPT !.inventory = result.items \o @,
                         !.errors = result.errors \o @]
        PushDevices(result, rest) ==
            [rest EXCEPT !.devices = result.devices \o @,
                         !.errors = result.errors \o @]
    IN  IF k > Len(sheets)
        THEN [devices |-> <<>>, inventory |-> <<>>, sheetCount |-> Len(sheets),
              errors |-> <<>>]
        ELSE IF IsInventorySheet(sheets[k].name)
             THEN PushInventory(parseInventorySheet(sheets[k]),
                                EachSheet(sheets, defaultBrand, k + 1))
        ELSE PushDevices(parseDevicesSheet(sheets[k], defaultBrand),
                         EachSheet(sheets, defaultBrand, k + 1))

\* the ExcelParseResult of a workbook that could be read
parseExcelFile(workbook, defaultBrand) == EachSheet(workbook.sheets, defaultBrand, 1)

(***************************************************************************)
(* services/databaseLoader.ts : the statements, as functions of the table  *)
(***************************************************************************)
\* the columns of reporting.devices that upsertDevice writes from the record
DeviceColumns ==
    {"sheet_name", "row_index", "brand", "device", "device_type", "project",
     "model", "build", "tac", "approved_date", "dual_sim", "target_region",
     "target_customer", "android_version", "volume_forecast", "target_solution",
     "integration_requirement", "initial_sw_schedule", "commercial_schedule",
     "sw_freeze_date", "initial_shipment_date", "initial_selling_date",
     "launch_date", "sample_shipped", "priority", "status", "comments", "tester",
     "contact"}

\* record.f as a statement parameter: an absent property is sent as NULL
Param(record, f) == IF f \in DOMAIN record THEN record[f] ELSE NULL

DeviceRow(device, fileId) ==
    [c \in {"device_hash", "source_file_id"} \cup DeviceColumns |->
        IF c = "source_file_id" THEN fileId ELSE Param(device, c)]

\* a gate that never finds the hash
isFileNeverProcessed(table, fileHash) == FALSE

\* a registration that creates and resets rows as PENDING
registerProcessedFileAsPending(table, fileInfo) ==
    IF \E i \in 1..Len(table) : table[i].file_hash = fileInfo.file_hash
    THEN LET i == CHOOSE i \in 1..Len(table) : table[i].file_hash = fileInfo.file_hash
         IN  [table |-> [table EXCEPT ![i].status = "PENDING",
                                      ![i].error_message = NULL],
              id |-> i]
    ELSE [table |-> Append(table,
                        [id |-> Len(table) + 1,
                         file_name |-> fileInfo.file_name,
                         file_path |-> fileInfo.file_path,
                         file_hash |-> fileInfo.file_hash,
                         sheet_count |-> fileInfo.sheet_count,
                         devices_count |-> 0,
                         inventory_count |-> 0,
                         status |-> "PENDING",
                         error_message |-> NULL]),
          id |-> Len(table) + 1]

\* a gate that finds the hash whatever the status of its row
isFileAlreadyRegistered(table, fileHash) ==
    \E i \in 1..Len(table) : table[i].file_hash = fileHash

\* SELECT status ... WHERE file_hash = $1 AND status = 'COMPLETED'
isFileAlreadyProcessed(table, fileHash) ==
    \E i \in 1..Len(table) :
        table[i].file_hash = fileHash /\ table[i].status = "COMPLETED"

\* INSERT ... ON CONFLICT (file_hash) DO UPDATE SET status = 'PROCESSING',
\* error_message = NULL RETURNING id ; the id of a row is its position
registerProcessedFile(table, fileInfo) ==
    IF \E i \in 1..Len(table) : table[i].file_hash = fileInfo.file_hash
    THEN LET i == CHOOSE i \in 1..Len(table) : table[i].file_hash = fileInfo.file_hash
         IN  [table |-> [table EXCEPT ![i].status = "PROCESSING",
                                      ![i].error_message = NULL],
              id |-> i]
    ELSE [table |-> Append(table,
                        [id |-> Len(table) + 1,
                         file_name |-> fileInfo.file_name,
                         file_path |-> fileInfo.file_path,
                         file_hash |-> fileInfo.file_hash,
                         sheet_count |-> fileInfo.sheet_count,
                         devices_count |-> 0,
                         inventory_count |-> 0,
                         status |-> "PROCESSING",
                         error_message |-> NULL]),
          id |-> Len(table) + 1]

\* UPDATE processed_files SET status = $1, devices_count = COALESCE($3, ...),
\* inventory_count = COALESCE($4, ...), error_message = $5 WHERE id = $2 ;
\* counts is <<>> when the argument is omitted
updateFileStatus(table, fileId, status, counts, errorMessage) ==
    [i \in 1..Len(table) |->
        IF table[i].id # fileId THEN table[i]
        ELSE [table[i] EXCEPT
                !.status = status,
                !.devices_count = IF counts = <<>> THEN @ ELSE counts.devices,
                !.inventory_count = IF counts = <<>> THEN @ ELSE counts.inventory,
                !.error_message = errorMessage]]

\* a load that inserts without looking the fingerprint up
upsertDeviceInsertOnly(table, device, fileId) ==
    [table |-> Append(table, DeviceRow(device, fileId)), result |-> "inserted"]

\* SELECT id WHERE device_hash = $1, then UPDATE ... WHERE device_hash = $1
\* or INSERT
upsertDevice(table, device, fileId) ==
    IF \E i \in 1..Len(table) : table[i].device_hash = device.device_hash
    THEN [table |-> [i \in 1..Len(table) |->
                        IF table[i].device_hash = device.device_hash
                        THEN DeviceRow(device, fileId)
                        ELSE table[i]],
          result |-> "updated"]
    ELSE [table |-> Append(table, DeviceRow(device, fileId)),
          result |-> "inserted"]

\* the loop of loadDevices inside one transaction, from record k on
RECURSIVE LoadDevicesFrom(_, _, _, _, _)
LoadDevicesFrom(table, devs, fileId, k, counts) ==
    IF k > Len(devs) THEN [table |-> table, counts |-> counts]
    ELSE LET Counted(u) ==
                 LoadDevicesFrom(u.table, devs, fileId, k + 1,
                    [inserted |-> counts.inserted
                                    + (IF u.result = "inserted" THEN 1 ELSE 0),
                     updated |-> counts.updated
                                    + (IF u.result = "updated" THEN 1 ELSE 0),
                     skipped |-> counts.skipped
                                    + (IF u.result \notin {"inserted", "updated"}
                                       THEN 1 ELSE 0)])
         IN  Counted(upsertDevice(table, devs[k], fileId))

\* the DATE columns of devices take the text of a parameter only when it is
\* a calendar date: 'YYYY-MM-DD' with the year from 0001 on, the month in
\* 01..12 and the day within the month (29 days of February in a leap year)
DateColumnsAccept(device) ==
    \A f \in {"approved_date", "initial_sw_schedule", "commercial_schedule",
              "sw_freeze_date", "initial_shipment_date", "initial_selling_date",
              "launch_date"} :
        LET str == Param(device, f)
            D(i) == IndexIn(CharAt(str, i), Digits) - 1
            year == D(1) * 1000 + D(2) * 100 + D(3) * 10 + D(4)
            month == D(6) * 10 + D(7)
            day == D(9) * 10 + D(10)
            leap == year % 4 = 0 /\ (year % 100 # 0 \/ year % 400 = 0)
            days == IF month = 2 THEN (IF leap THEN 29 ELSE 28)
                    ELSE IF month \in {4, 6, 9, 11} THEN 30 ELSE 31
        IN  str = NULL
            \/ (IsIsoDate(str) /\ year >= 1 /\ month \in 1..12 /\ day \in 1..days)

\* the table and the counts after a committed loadDevices
loadDevices(table, devs, fileId) ==
    LoadDevicesFrom(table, devs, fileId, 1,
                    [inserted |-> 0, updated |-> 0, skipped |-> 0])

InventoryColumns ==
    {"in_inventory", "nm_flow", "solution_type", "model", "tac", "device_name",
     "brand", "marketing_name", "serial_number", "imei1", "imei2", "received_on",
     "returned_on", "remark", "target_customer", "comments", "metadata"}

InventoryRow(item, fileId) ==
    [c \in {"inventory_hash", "source_file_id"} \cup InventoryColumns |->
        IF c = "source_file_id" THEN fileId
        ELSE IF c = "in_inventory"
             THEN (IF Truthy(Param(item, c)) THEN TRUE_ ELSE FALSE_)
        ELSE IF c = "inventory_hash"
             THEN (IF Truthy(Param(item, c)) THEN item[c] ELSE generateInventoryHash(item))
        ELSE Param(item, c)]

\* INSERT ... ON CONFLICT (inventory_hash) DO UPDATE SET ... = EXCLUDED....
upsertInventory(table, item, fileId) ==
    LET Put(row) ==
            IF \E i \in 1..Len(table) : table[i].inventory_hash = row.inventory_hash
            THEN [i \in 1..Len(table) |->
                     IF table[i].inventory_hash = row.inventory_hash
                     THEN row ELSE table[i]]
            ELSE Append(table, row)
    IN  Put(InventoryRow(item, fileId))

\* the loop of loadInventory: every statement counts as an insert
RECURSIVE LoadInventoryFrom(_, _, _, _, _)
LoadInventoryFrom(table, items, fileId, k, counts) ==
    IF k > Len(items) THEN [table |-> table, counts |-> counts]
    ELSE LoadInventoryFrom(upsertInventory(table, items[k], fileId), items, fileId,
                           k + 1, [counts EXCEPT !.inserted = @ + 1])

loadInventory(table, items, fileId) ==
    LoadInventoryFrom(table, items, fileId, 1, [inserted |-> 0, updated |-> 0])

\* INSERT INTO automation_logs (...)
logAutomation(table, log) == Append(table, log)

LogRow(fileId, action, tableName, inserted, updated, skipped, errors) ==
    [file_id |-> fileId, action |-> action, table_name |-> tableName,
     rows_inserted |-> inserted, rows_updated |-> updated, rows_skipped |-> skipped,
     errors |-> errors]

(***************************************************************************)
(* Files on disk                                                           *)
(*                                                                         *)
(* The bytes of a file are named by a content identifier (a sequence of    *)
(* strings); Workbook(c) is what ExcelJS reads from those bytes.  The      *)
(* SHA-256 of the bytes is modelled by the identifier itself.              *)
(***************************************************************************)
HeaderTesting == <<"Market Name", "Model", "Status", "Comments">>

HeaderInventory == <<"Model", "IMEI 1">>

\* version A of a planning workbook: the second data row has the fingerprint
\* of the first one
WorkbookA ==
    [readable |-> TRUE,
     sheets |-> <<
        [name |-> "Testing 1", raises |-> {},
         rows |-> <<HeaderTesting,
                    <<"Galaxy", "S1", "testing", "v1">>,
                    <<"galaxy ", "s1", "Completed", "dup">>>>],
        [name |-> "Inventory", raises |-> {},
         rows |-> <<HeaderInventory, <<"S1", "111">>>>]>>]

\* version B: the same device with other values, one more device, one row
\* whose transformation throws
WorkbookB ==
    [readable |-> TRUE,
     sheets |-> <<
        [name |-> "Testing 1", raises |-> {5},
         rows |-> <<<<"Device Plan">>,
                    HeaderTesting,
                    <<"Galaxy", "S1", "Issue", "v2">>,
                    <<"Nova", "N2", "bogus", "">>,
                    <<"Bad", "B3", "", "">>>>],
        [name |-> "Inventario", raises |-> {},
         rows |-> <<HeaderInventory, <<"S1", "111">>, <<"N2", "222">>>>]>>]

\* a file ExcelJS cannot read
WorkbookX == [readable |-> FALSE, sheets |-> <<>>]

FixedContents == {<<"A">>, <<"B">>, <<"X">>}

(***************************************************************************)
(* A family of workbooks for the extraction: the content identifier        *)
(* <<tag, kind_1, ..., kind_n>> names a workbook with one sheet of n rows   *)
(* of the given kinds, a devices sheet for tag "D" and an inventory sheet   *)
(* for tag "I", next to one well-formed sheet of the other sort.            *)
(***************************************************************************)
MaxLead == 6

MaxData == 2

\* the cells of a row of a kind: a title line, a line with too few known
\* column names, a header, a valid row, a row without key fields, a blank
\* row, a row whose transformation throws
KindRow(tag, kind) ==
    IF tag = "D"
    THEN CASE kind = "title" -> <<"Device Plan 2024">>
           [] kind = "short" -> <<"Model", "Status">>
           [] kind = "hdr"   -> <<"Market Name", "Model", "Status">>
           [] kind = "v"     -> <<"Galaxy", "S1", "testing">>
           [] kind = "i"     -> <<"", "", "Completed">>
           [] kind = "b"     -> <<"", " ", "">>
           [] kind = "r"     -> <<"Nova", "N2", "testing">>
    ELSE CASE kind = "title" -> <<"Stock 2024">>
           [] kind = "short" -> <<"Model">>
           [] kind = "hdr"   -> <<"Model", "IMEI 1">>
           [] kind = "v"     -> <<"S1", "111">>
           [] kind = "i"     -> <<"", "", "note">>
           [] kind = "b"     -> <<"", " ">>
           [] kind = "r"     -> <<"N2", "222">>

GeneratedSheet(c) ==
    [name |-> IF c[1] = "D" THEN "Testing 1" ELSE "Inventory",
     rows |-> [i \in 1..(Len(c) - 1) |-> KindRow(c[1], c[i + 1])],
     raises |-> {i \in 1..(Len(c) - 1) : c[i + 1] = "r"}]

\* leading rows: title lines, the first one possibly a short line
Leads ==
    {[i \in 1..n |-> IF i = 1 /\ s THEN "short" ELSE "title"] :
        n \in 0..MaxLead, s \in BOOLEAN}

\* data rows: valid, incomplete, blank, raising, or a repeated header line
DataRowKinds ==
    UNION {[1..n -> {"v", "i", "b", "r", "hdr"}] : n \in 0..MaxData}

GeneratedContents ==
    {<<tag>> \o lead \o <<"hdr">> \o data :
        tag \in {"D", "I"}, lead \in Leads, data \in DataRowKinds}

(***************************************************************************)
(* A family of workbooks for the row transformation.  The content          *)
(* <<"R">> \o row1 \o row2 names a workbook whose devices sheet has the     *)
(* header RowHeader and the two data rows row1 and row2 (the cell texts);  *)
(* <<"J">> \o row names one whose inventory sheet has the header           *)
(* ItemHeader and the data row row.                                        *)
(***************************************************************************)
RowHeader ==
    <<"Brand", "Market Name", "Model", "TAC", "Build", "Region", "Customer",
      "Solution", "Dual SIM", "Approved Date", "Status", "Comments">>

\* the field each column of RowHeader resolves to
RowFields ==
    <<"brand", "device", "model", "tac", "build", "target_region",
      "target_customer", "target_solution", "dual_sim", "approved_date",
      "status", "comments">>

BaseRow == <<"", "Nova", "N2", "", "", "", "", "", "", "", "", "">>

FullRow ==
    <<"Acme", "Nova", "N2", "35", "B1", "Peru", "Claro", "DLC", "Y",
      "2024-03-15", "Testing", "note">>

\* one cell rewritten, <<column, text>>: a cell of a key field, or a cell of
\* another field
Edits ==
    {<<2, "Nova|X">>, <<2, " NOVA ">>, <<2, "Vega">>,
     <<3, "X|N2">>, <<3, "n2">>, <<3, "N3">>,
     <<4, "35">>, <<5, "B1">>, <<6, "Peru">>, <<7, "Claro">>, <<8, "DLC">>,
     <<1, "">>, <<1, "Acme">>, <<9, "Y">>, <<10, "2024-03-15">>,
     <<11, "Testing">>, <<12, "note">>}

Edited(row, e) == [row EXCEPT ![e[1]] = e[2]]

EditPairs ==
    {<<Edited(BaseRow, e1), Edited(BaseRow, e2)>> : e1 \in Edits, e2 \in Edits}

RegionSamples ==
    {"BHAMAS, peru, Mxico", "Costa Rica and PANAMA", "el salvador/chile & X",
     "peru\nCOLOMIBA", "dominicana", "a, Peru,, b ,", "OM", "Latam",
     "latam om", "Latam", "om, latam", "puerto   rico", "Zeta, alfa, Beta"}

DualSamples ==
    {"y", "Y", "yes", " Yes ", "si", "SI", "s", "S", "true", "TRUE", "1",
     "n", "no", "0", "false", "x"}

DateSamples ==
    {"15/03/2024", "2024-03-15", "not a date", "1-3-2024", "5/12/2024",
     "31-1-2024", "15/03/24", "  2024-03-15 "}

SolutionSamples ==
    {"DLC 1.o, DPC1.O", "DPC, DLC", "b,a", " ,x,, y ", "DPC1.o1.O",
     "DLC and DPC", "1.0"}

\* one sample in its column, next to the base row
SamplePairs ==
    {<<Edited(BaseRow, <<col, v>>), BaseRow>> :
        col \in {6, 7}, v \in RegionSamples}
    \cup {<<Edited(BaseRow, <<9, v>>), BaseRow>> : v \in DualSamples}
    \cup {<<Edited(BaseRow, <<10, v>>), BaseRow>> : v \in DateSamples}
    \cup {<<Edited(BaseRow, <<8, v>>), BaseRow>> : v \in SolutionSamples}

\* a row with every other cell empty or every other cell filled, and the
\* device and model cells empty, blank or filled
KeyedPairs ==
    {<<[[rest EXCEPT ![2] = device] EXCEPT ![3] = model], BaseRow>> :
        rest \in {BaseRow, FullRow},
        device \in {"", "  ", "Nova"}, model \in {"", " ", "N2"}}

Segments == {"Peru", "mxico", "Costa Rica", "and Panama"}

MaxSegments == 3

\* the lists of distinct segments, of 2 to MaxSegments segments
SegmentLists ==
    {s \in UNION {[1..n -> Segments] : n \in 2..MaxSegments} :
        \A i, j \in 1..Len(s) : s[i] = s[j] => i = j}

\* two region cells that list the same segments in two orders
PermutedPairs ==
    {<<Edited(BaseRow, <<6, join(st[1], ", ")>>),
       Edited(BaseRow, <<6, join(st[2], ", ")>>)>> :
        st \in {st \in SegmentLists \X SegmentLists :
                    {st[1][i] : i \in 1..Len(st[1])} = {st[2][i] : i \in 1..Len(st[2])}}}

RowPairs == EditPairs \cup SamplePairs \cup KeyedPairs \cup PermutedPairs

ItemHeader ==
    <<"Model", "TAC", "Device Name Inventory", "Serial Number", "IMEI 1",
      "Brand", "Remark">>

ItemSample == <<"S9", "35", "Nova 9", "SN1", "111", "Acme", "boxed">>

\* every choice of filled and empty cells of the sample row, and the row of
\* blanks with a remark
ItemRows ==
    {[i \in 1..Len(ItemSample) |-> IF i \in filled THEN ItemSample[i] ELSE ""] :
        filled \in SUBSET (1..Len(ItemSample))}
    \cup {<<" ", "", "  ", "", "", "", "boxed">>}

RowSheet(c) ==
    [name |-> "Testing 1",
     rows |-> <<RowHeader, SubSeq(c, 2, Len(RowHeader) + 1),
                SubSeq(c, Len(RowHeader) + 2, 2 * Len(RowHeader) + 1)>>,
     raises |-> {}]

ItemSheet(c) ==
    [name |-> "Inventory", rows |-> <<ItemHeader, Tail(c)>>, raises |-> {}]

(***************************************************************************)
(* A family of workbooks for the sheets.  <<"H">> \o header names a        *)
(* workbook whose devices sheet has that header row and one data row;      *)
(* <<"N", name1, name2>> one with two sheets of those names, each with a   *)
(* header both extractions accept and one data row; <<"K">> \o row1 \o row2 *)
(* one whose inventory sheet has the header ItemHeader and two data rows;  *)
(* <<"R">> \o row1 \o row2 is the devices sheet of the family above.        *)
(***************************************************************************)
FamilySheets(c) ==
    IF c[1] = "H"
    THEN <<[name |-> "Testing 1", raises |-> {},
            rows |-> <<Tail(c),
                       <<"Nova", "N2", "Testing", "2024-03-14", "2024-03-15">>>>]>>
    ELSE IF c[1] = "N"
    THEN <<[name |-> c[2], raises |-> {},
            rows |-> <<<<"Market Name", "Model", "IMEI 1", "Status">>,
                       <<"Nova", "N2", "111", "Testing">>>>],
           [name |-> c[3], raises |-> {},
            rows |-> <<<<"Market Name", "Model", "IMEI 1", "Status">>,
                       <<"Vega", "V3", "222", "Issue">>>>]>>
    ELSE <<[name |-> "Inventory", raises |-> {},
            rows |-> <<ItemHeader, SubSeq(c, 2, Len(ItemHeader) + 1),
                       SubSeq(c, Len(ItemHeader) + 2, 2 * Len(ItemHeader) + 1)>>]>>

\* the contents of the family: two header cells next to three known ones,
\* two sheet names, a status cell or a date cell in a devices row, one cell
\* of the second of two inventory rows rewritten
SheetContents ==
    {<<"H", "Market Name", "Model", "Status", h1, h2>> :
        h1, h2 \in {"Unnamed: 4", " my STATUS OPTIONS ", "Device Name",
                    "Nombre Comercial", "COMMENTS", "DPC/DLC", " tac ", "Foo",
                    "", "Inventory Comments", "Model Name", "Dual SIM"}}
    \cup {<<"N", n1, n2>> :
            n1, n2 \in {"Inventory", "INVENTARIO 2024", "old inventory (2)",
                        "Testing 1", "Stock", "Invent", "Inventori o"}}
    \cup {<<"R">> \o Edited(BaseRow, <<11, s>>) \o Edited(FullRow, <<10, "">>) :
            s \in {"Testing", "testing", " COMPLETED ", "not started", "Issue",
                   "CANCELLED", "Canceled", "Done", "In Progress", "Testing."}}
    \cup {<<"R">> \o BaseRow \o Edited(FullRow, <<10, d>>) :
            d \in {"15/03/2024", "2024-03-15", "31/02/2024", "5/13/2024",
                   "0/0/2024", "29-2-2023", "29-2-2024", "2024-13-45",
                   "99/99/9999", "31/4/2024"}}
    \cup {<<"K">> \o ItemSample \o Edited(ItemSample, e) :
            e \in {<<1, "S8">>, <<2, "36">>, <<3, "Nova 8">>, <<4, "SN2">>,
                   <<5, "112">>, <<1, "">>, <<2, "">>, <<3, "">>,
                   <<4, "">>, <<5, "">>, <<7, "used">>}}

Workbook(c) ==
    IF c = <<"A">> THEN WorkbookA
    ELSE IF c = <<"B">> THEN WorkbookB
    ELSE IF c = <<"X">> THEN WorkbookX
    ELSE IF c[1] = "R"
         THEN [readable |-> TRUE, sheets |-> <<RowSheet(c), WorkbookA.sheets[2]>>]
    ELSE IF c[1] = "J"
         THEN [readable |-> TRUE, sheets |-> <<WorkbookA.sheets[1], ItemSheet(c)>>]
    ELSE IF c[1] \in {"H", "N", "K"}
         THEN [readable |-> TRUE, sheets |-> FamilySheets(c)]
    ELSE [readable |-> TRUE,
          sheets |-> IF c[1] = "D"
                     THEN <<GeneratedSheet(c), WorkbookA.sheets[2]>>
                     ELSE <<WorkbookA.sheets[1], GeneratedSheet(c)>>]

\* crypto.createHash('sha256').update(buffer).digest('hex')
calculateFileHash(c) == c

Paths == {"data/Plan Blu.xlsx", "data/Plan_Acme.XLS"}

RECURSIVE AfterLast(_, _, _)
\* the part of s after the last character of s that is in seps (s if none)
AfterLast(s, seps, cur) ==
    IF s = "" THEN cur
    ELSE IF Head(s) \in seps THEN AfterLast(Tail(s), seps, "")
    ELSE AfterLast(Tail(s), seps, cur \o Head(s))

\* path.basename(filePath)
basename(filePath) == AfterLast(filePath, {"/", "\\"}, "")

\* path.extname(filePath): from the last '.' of the base name, '' when there
\* is none or when it is the first character
extname(filePath) ==
    LET base == basename(filePath)
        tail == AfterLast(base, {"."}, "")
    IN  IF Len(tail) = Len(base) \/ Len(base) - Len(tail) = 1 THEN ""
        ELSE "." \o tail

\* the last token of fileNameWithoutExt.split(/[\s_-]+/)
extractedBrand(filePath) ==
    LET base == basename(filePath)
        fileNameWithoutExt == SubSeq(base, 1, Len(base) - Len(extname(filePath)))
    IN  AfterLast(fileNameWithoutExt, {" ", "\t", "\n", "\r", "_", "-"}, "")

VALID_EXTENSIONS == {".xlsx", ".xls"}

isValidExcelFile(filePath) ==
    LET fileName == basename(filePath)
        ext == toLowerCase(extname(filePath))
    IN  IF startsWith(fileName, "~$") \/ startsWith(fileName, ".") THEN FALSE
        ELSE ext \in VALID_EXTENSIONS

\* the Excel files among the paths, and the brand each file name gives
ExcelPaths == {p \in Paths : isValidExcelFile(p)}

BrandOf == [p \in Paths |-> extractedBrand(p)]

\* parseExcelFile for every readable fixed content and every brand
ParseTable ==
    [c \in {c \in FixedContents : Workbook(c).readable} |->
        [b \in {BrandOf[p] : p \in Paths} |-> parseExcelFile(Workbook(c), b)]]

\* what parseExcelFile(filePath, defaultBrand) reads from content c
Parsed(c, defaultBrand) ==
    IF c \in DOMAIN ParseTable THEN ParseTable[c][defaultBrand]
    ELSE parseExcelFile(Workbook(c), defaultBrand)

(***************************************************************************)
(* services/fileWatcher.ts : processFile and its callers                   *)
(*                                                                         *)
(* A slot of runs holds one invocation of processFile: pc names the await  *)
(* it is suspended at.  Every await of a storage call is one step; the     *)
(* call either takes effect or throws without effect (a transaction that   *)
(* fails is rolled back).                                                  *)
(***************************************************************************)
\* bounds on invocations, file saves and storage faults of a behaviour whose
\* invocations follow one another ...
MaxRuns == 3

MaxWrites == 2

MaxFaults == 2

\* ... and of a behaviour in which invocations are in flight together
MaxInFlight == 2

OverlapRuns == 2

OverlapWrites == 1

OverlapFaults == 1

Slots == 1..MaxInFlight

EmptyParse == [devices |-> <<>>, inventory |-> <<>>, sheetCount |-> 0, errors |-> <<>>]

NoCounts == [inserted |-> 0, updated |-> 0, skipped |-> 0]

NoResult ==
    [success |-> FALSE, devicesInserted |-> 0, devicesUpdated |-> 0,
     devicesSkipped |-> 0, inventoryInserted |-> 0, inventoryUpdated |-> 0,
     errors |-> <<>>]

\* the ETLResult of the unchanged-file short circuit
SkippedResult == [NoResult EXCEPT !.success = TRUE]

IdleRun ==
    [pc |-> "idle", queue |-> <<>>, filePath |-> "",
     fileHash |-> <<>>, parseResult |-> EmptyParse, fileId |-> 0,
     deviceResult |-> NoCounts,
     inventoryResult |-> [inserted |-> 0, updated |-> 0],
     error |-> NULL, calls |-> {},
     outcome |-> [kind |-> "none", result |-> NoResult, error |-> NULL],
     folder |-> "", results |-> <<>>]

RunBudget == IF overlapped THEN OverlapRuns ELSE MaxRuns

WriteBudget == IF overlapped THEN OverlapWrites ELSE MaxWrites

FaultBudget == IF overlapped THEN OverlapFaults ELSE MaxFaults

InFlight == {q \in Slots : runs[q].pc # "idle"}

\* slots are interchangeable: an invocation takes the first idle one
FirstIdle(r) ==
    /\ runs[r].pc = "idle"
    /\ \A q \in Slots : q < r => runs[q].pc # "idle"

\* the entry of processFile(filePath) up to the end of getFileInfo ; queue
\* holds the files processAllFiles has still to process after this one and
\* folder the folder it was called for ("" for another caller)
Invoke(r, filePath, queue, folder) ==
    /\ FirstIdle(r)
    /\ started + 1 + Len(queue) <= RunBudget
    /\ InFlight # {} =>
            /\ started + 1 + Len(queue) <= OverlapRuns
            /\ writes <= OverlapWrites
            /\ faults <= OverlapFaults
    /\ overlapped' = (overlapped \/ InFlight # {})
    /\ started' = started + 1 + Len(queue)
    /\ runs' = [runs EXCEPT ![r] =
                    [IdleRun EXCEPT !.pc = "isFileAlreadyProcessed",
                                    !.queue = queue,
                                    !.filePath = filePath,
                                    !.fileHash = calculateFileHash(disk[filePath]),
                                    !.calls = {"getFileInfo"},
                                    !.folder = folder]]

\* chokidar 'add' : the file was found by the initial scan, or created anew
WatcherAdd(r, p) ==
    /\ p \in ExcelPaths
    /\ Invoke(r, p, <<>>, "")
    /\ UNCHANGED <<disk, files, devices, inventory, logs, writes, faults>>

\* chokidar 'change' : the file was saved, with new bytes or the same ones
WatcherChange(r, p) ==
    /\ p \in ExcelPaths
    /\ Invoke(r, p, <<>>, "")
    /\ UNCHANGED <<disk, files, devices, inventory, logs, writes, faults>>

\* POST /process/file
PostFile(r, p) ==
    /\ Invoke(r, p, <<>>, "")
    /\ UNCHANGED <<disk, files, devices, inventory, logs, writes, faults>>

\* await fs.readdir(folderPath): the names in the folder, or an exception
\* for a folder that cannot be read
readdir(folderPath) ==
    IF folderPath = "data"
    THEN [throws |-> FALSE,
          files |-> <<".Plan Blu.xlsx", "Plan Blu.xlsx", "Plan Blu.xlsx.bak",
                      "Plan_Acme.XLS", "notes.txt", "~$Plan Blu.xlsx">>]
    ELSE [throws |-> TRUE, files |-> <<>>]

\* files.filter(f => isValidExcelFile(f)), each as path.join(folderPath, file),
\* for the folders a request names ; no file when readdir throws
ExcelFilesOfFolder ==
    [folderPath \in {"data", "missing"} |->
        LET Joined(excelFiles) ==
                [i \in 1..Len(excelFiles) |-> folderPath \o "/" \o excelFiles[i]]
        IN  IF readdir(folderPath).throws THEN <<>>
            ELSE Joined(SelectSeq(readdir(folderPath).files, isValidExcelFile))]

\* POST /process/folder : processAllFiles starts on the first file, or
\* returns at once with no result
PostFolder(r, folderPath) ==
    /\ IF ExcelFilesOfFolder[folderPath] # <<>>
       THEN Invoke(r, Head(ExcelFilesOfFolder[folderPath]),
                   Tail(ExcelFilesOfFolder[folderPath]), folderPath)
       ELSE /\ FirstIdle(r)
            /\ runs' = [runs EXCEPT ![r] =
                            [IdleRun EXCEPT !.pc = "processAllFiles",
                                            !.folder = folderPath]]
            /\ UNCHANGED <<started, overlapped>>
    /\ UNCHANGED <<disk, files, devices, inventory, logs, writes, faults>>

\* the versions of each file that are saved over time
VersionsOf(p) ==
    IF BrandOf[p] = "Blu" THEN {<<"A">>, <<"B">>} ELSE {<<"A">>, <<"X">>}

\* somebody saves a new version of the file
WriteFile(p, c) ==
    /\ writes < WriteBudget
    /\ c \in VersionsOf(p)
    /\ disk[p] # c
    /\ disk' = [disk EXCEPT ![p] = c]
    /\ writes' = writes + 1
    /\ UNCHANGED <<runs, files, devices, inventory, logs, started, faults, overlapped>>

Throw(run, message) ==
    [run EXCEPT !.pc = "done",
                !.outcome = [kind |-> "thrown", result |-> NoResult, error |-> message]]

ReturnResult(run, result) ==
    [run EXCEPT !.pc = "done",
                !.outcome = [kind |-> "returned", result |-> result, error |-> NULL]]

\* a storage call succeeds, or throws while faults are still to be had
StorageOutcomes == IF faults < FaultBudget THEN BOOLEAN ELSE {TRUE}

Called(run, f) == [run EXCEPT !.calls = @ \cup {f}]

\* a gate keyed by the path as well as by the hash
GateByPath(r) ==
    /\ runs[r].pc = "isFileAlreadyProcessed"
    /\ \E ok \in StorageOutcomes :
      /\ faults' = IF ok THEN faults ELSE faults + 1
      /\ LET run == Called(runs[r], "isFileAlreadyProcessed")
        IN  runs' = [runs EXCEPT ![r] =
                IF ~ok THEN Throw(run, "isFileAlreadyProcessed failed")
                ELSE IF \E i \in 1..Len(files) :
                            /\ files[i].file_hash = run.fileHash
                            /\ files[i].file_path = run.filePath
                            /\ files[i].status = "COMPLETED"
                     THEN ReturnResult(run, SkippedResult)
                ELSE [run EXCEPT !.pc = "parseExcelFile"]]
    /\ UNCHANGED <<disk, files, devices, inventory, logs, started, writes, overlapped>>

\* await isFileAlreadyProcessed(fileInfo.fileHash), and the early return
Gate(r) ==
    /\ runs[r].pc = "isFileAlreadyProcessed"
    /\ \E ok \in StorageOutcomes :
      /\ faults' = IF ok THEN faults ELSE faults + 1
      /\ LET run == Called(runs[r], "isFileAlreadyProcessed")
        IN  runs' = [runs EXCEPT ![r] =
                IF ~ok THEN Throw(run, "isFileAlreadyProcessed failed")
                ELSE IF isFileAlreadyProcessed(files, run.fileHash)
                     THEN ReturnResult(run, SkippedResult)
                ELSE [run EXCEPT !.pc = "parseExcelFile"]]
    /\ UNCHANGED <<disk, files, devices, inventory, logs, started, writes, overlapped>>

\* a parse step that records the file as failed when it cannot be read
ParseRecordingFailure(r) ==
    /\ runs[r].pc = "parseExcelFile"
    /\ LET run == Called(runs[r], "parseExcelFile")
           workbook == Workbook(disk[run.filePath])
       IN  IF ~workbook.readable
           THEN /\ runs' = [runs EXCEPT ![r] = Throw(run, "workbook cannot be read")]
                /\ files' = Append(files,
                        [id |-> Len(files) + 1,
                         file_name |-> basename(run.filePath),
                         file_path |-> run.filePath,
                         file_hash |-> run.fileHash,
                         sheet_count |-> 0,
                         devices_count |-> 0,
                         inventory_count |-> 0,
                         status |-> "ERROR",
                         error_message |-> "workbook cannot be read"])
           ELSE /\ runs' = [runs EXCEPT ![r] =
                        [run EXCEPT !.pc = "registerProcessedFile",
                                    !.parseResult =
                                        Parsed(disk[run.filePath], BrandOf[run.filePath])]]
                /\ files' = files
    /\ UNCHANGED <<disk, devices, inventory, logs, started, writes, faults, overlapped>>

\* await parseExcelFile(filePath, extractedBrand) : the file is read again
Parse(r) ==
    /\ runs[r].pc = "parseExcelFile"
    /\ LET run == Called(runs[r], "parseExcelFile")
           workbook == Workbook(disk[run.filePath])
       IN  runs' = [runs EXCEPT ![r] =
                IF ~workbook.readable THEN Throw(run, "workbook cannot be read")
                ELSE [run EXCEPT !.pc = "registerProcessedFile",
                                 !.parseResult =
                                     Parsed(disk[run.filePath], BrandOf[run.filePath])]]
    /\ UNCHANGED <<disk, files, devices, inventory, logs, started, writes, faults, overlapped>>

\* const fileId = await registerProcessedFile({...})
Register(r) ==
    /\ runs[r].pc = "registerProcessedFile"
    /\ \E ok \in StorageOutcomes :
      /\ faults' = IF ok THEN faults ELSE faults + 1
      /\ LET run == Called(runs[r], "registerProcessedFile")
            Registered(reg) ==
                /\ files' = reg.table
                /\ runs' = [runs EXCEPT ![r] =
                                [run EXCEPT !.pc = "loadDevices", !.fileId = reg.id]]
        IN  IF ok
            THEN Registered(registerProcessedFile(files,
                        [file_name |-> basename(run.filePath),
                         file_path |-> run.filePath,
                         file_hash |-> run.fileHash,
                         sheet_count |-> run.parseResult.sheetCount]))
            ELSE /\ files' = files
                 /\ runs' = [runs EXCEPT ![r] = Throw(run, "registerProcessedFile failed")]
    /\ UNCHANGED <<disk, devices, inventory, logs, started, writes, overlapped>>

\* control enters the catch block with the exception caught
Caught(run, message) == [run EXCEPT !.pc = "catchUpdateFileStatus", !.error = message]

\* await loadDevices(parseResult.devices, fileId) : the transaction commits, or
\* is rolled back when a statement fails or a DATE column rejects a parameter
LoadDevices(r) ==
    /\ runs[r].pc = "loadDevices"
    /\ \E ok \in StorageOutcomes :
      /\ faults' = IF ok THEN faults ELSE faults + 1
      /\ LET run == Called(runs[r], "loadDevices")
            Loaded(loaded) ==
                /\ devices' = loaded.table
                /\ runs' = [runs EXCEPT ![r] =
                                [run EXCEPT !.pc = "logDevices",
                                            !.deviceResult = loaded.counts]]
            accepted == \A k \in 1..Len(run.parseResult.devices) :
                            DateColumnsAccept(run.parseResult.devices[k])
        IN  IF ok /\ accepted
            THEN Loaded(loadDevices(devices, run.parseResult.devices, run.fileId))
            ELSE /\ devices' = devices
                 /\ runs' = [runs EXCEPT ![r] =
                                Caught(run, IF ok
                                            THEN "date/time field value out of range"
                                            ELSE "loadDevices failed")]
    /\ UNCHANGED <<disk, files, inventory, logs, started, writes, overlapped>>

RECURSIVE SelectErrors(_, _)
\* errors.filter(e => (e.sheet === 'Inventory') = inventorySide)
SelectErrors(errors, inventorySide) ==
    IF errors = <<>> THEN <<>>
    ELSE IF (Head(errors).sheet = "Inventory") = inventorySide
         THEN <<Head(errors)>> \o SelectErrors(Tail(errors), inventorySide)
    ELSE SelectErrors(Tail(errors), inventorySide)

\* await logAutomation({action: 'LOAD_DEVICES', ...})
LogDevices(r) ==
    /\ runs[r].pc = "logDevices"
    /\ \E ok \in StorageOutcomes :
      /\ faults' = IF ok THEN faults ELSE faults + 1
      /\ LET run == Called(runs[r], "logAutomation")
        IN  IF ok
            THEN /\ logs' = logAutomation(logs,
                        LogRow(run.fileId, "LOAD_DEVICES", "devices",
                               run.deviceResult.inserted, run.deviceResult.updated,
                               run.deviceResult.skipped,
                               SelectErrors(run.parseResult.errors, FALSE)))
                 /\ runs' = [runs EXCEPT ![r] = [run EXCEPT !.pc = "loadInventory"]]
            ELSE /\ logs' = logs
                 /\ runs' = [runs EXCEPT ![r] = Caught(run, "logAutomation failed")]
    /\ UNCHANGED <<disk, files, devices, inventory, started, writes, overlapped>>

\* await loadInventory(parseResult.inventory, fileId)
LoadInventory(r) ==
    /\ runs[r].pc = "loadInventory"
    /\ \E ok \in StorageOutcomes :
      /\ faults' = IF ok THEN faults ELSE faults + 1
      /\ LET run == Called(runs[r], "loadInventory")
            Loaded(loaded) ==
                /\ inventory' = loaded.table
                /\ runs' = [runs EXCEPT ![r] =
                                [run EXCEPT !.pc = "logInventory",
                                            !.inventoryResult = loaded.counts]]
        IN  IF ok
            THEN Loaded(loadInventory(inventory, run.parseResult.inventory, run.fileId))
            ELSE /\ inventory' = inventory
                 /\ runs' = [runs EXCEPT ![r] = Caught(run, "loadInventory failed")]
    /\ UNCHANGED <<disk, files, devices, logs, started, writes, overlapped>>

\* await logAutomation({action: 'LOAD_INVENTORY', ...})
LogInventory(r) ==
    /\ runs[r].pc = "logInventory"
    /\ \E ok \in StorageOutcomes :
      /\ faults' = IF ok THEN faults ELSE faults + 1
      /\ LET run == Called(runs[r], "logAutomation")
        IN  IF ok
            THEN /\ logs' = logAutomation(logs,
                        LogRow(run.fileId, "LOAD_INVENTORY", "inventory",
                               run.inventoryResult.inserted, run.inventoryResult.updated,
                               0, SelectErrors(run.parseResult.errors, TRUE)))
                 /\ runs' = [runs EXCEPT ![r] = [run EXCEPT !.pc = "updateFileStatus"]]
            ELSE /\ logs' = logs
                 /\ runs' = [runs EXCEPT ![r] = Caught(run, "logAutomation failed")]
    /\ UNCHANGED <<disk, files, devices, inventory, started, writes, overlapped>>

\* await updateFileStatus(fileId, 'COMPLETED', {...}), and the return
Complete(r) ==
    /\ runs[r].pc = "updateFileStatus"
    /\ \E ok \in StorageOutcomes :
      /\ faults' = IF ok THEN faults ELSE faults + 1
      /\ LET run == Called(runs[r], "updateFileStatus")
        IN  IF ok
            THEN /\ files' = updateFileStatus(files, run.fileId, "COMPLETED",
                        [devices |-> run.deviceResult.inserted + run.deviceResult.updated,
                         inventory |-> run.inventoryResult.inserted],
                        NULL)
                 /\ runs' = [runs EXCEPT ![r] = ReturnResult(run,
                        [success |-> TRUE,
                         devicesInserted |-> run.deviceResult.inserted,
                         devicesUpdated |-> run.deviceResult.updated,
                         devicesSkipped |-> run.deviceResult.skipped,
                         inventoryInserted |-> run.inventoryResult.inserted,
                         inventoryUpdated |-> run.inventoryResult.updated,
                         errors |-> run.parseResult.errors])]
            ELSE /\ files' = files
                 /\ runs' = [runs EXCEPT ![r] = Caught(run, "updateFileStatus failed")]
    /\ UNCHANGED <<disk, devices, inventory, logs, started, writes, overlapped>>

\* catch: await updateFileStatus(fileId, 'ERROR', undefined, errorMessage)
CatchUpdateFileStatus(r) ==
    /\ runs[r].pc = "catchUpdateFileStatus"
    /\ \E ok \in StorageOutcomes :
      /\ faults' = IF ok THEN faults ELSE faults + 1
      /\ LET run == Called(runs[r], "catchUpdateFileStatus")
        IN  IF ok
            THEN /\ files' = updateFileStatus(files, run.fileId, "ERROR", <<>>, run.error)
                 /\ runs' = [runs EXCEPT ![r] = [run EXCEPT !.pc = "catchLogAutomation"]]
            ELSE /\ files' = files
                 /\ runs' = [runs EXCEPT ![r] =
                                Throw(run, "updateFileStatus failed in catch")]
    /\ UNCHANGED <<disk, devices, inventory, logs, started, writes, overlapped>>

\* catch: await logAutomation({action: 'ERROR', ...}) ; throw error
CatchLogAutomation(r) ==
    /\ runs[r].pc = "catchLogAutomation"
    /\ \E ok \in StorageOutcomes :
      /\ faults' = IF ok THEN faults ELSE faults + 1
      /\ LET run == Called(runs[r], "catchLogAutomation")
        IN  IF ok
            THEN /\ logs' = logAutomation(logs,
                        LogRow(run.fileId, "ERROR", NULL, 0, 0, 0,
                               <<ParseErrorOf("N/A", 0, run.error)>>))
                 /\ runs' = [runs EXCEPT ![r] = Throw(run, run.error)]
            ELSE /\ logs' = logs
                 /\ runs' = [runs EXCEPT ![r] =
                                Throw(run, "logAutomation failed in catch")]
    /\ UNCHANGED <<disk, files, devices, inventory, started, writes, overlapped>>

\* a loop of processAllFiles that gives up at the first file that throws
ReturnStoppingAtThrow(r) ==
    /\ runs[r].pc = "done"
    /\ LET run == runs[r]
       IN  runs' = [runs EXCEPT ![r] =
                IF run.folder = "" THEN IdleRun
                ELSE IF run.outcome.kind = "thrown"
                THEN [IdleRun EXCEPT !.pc = "processAllFiles",
                                     !.folder = run.folder,
                                     !.results = run.results]
                ELSE IF run.queue # <<>>
                THEN [IdleRun EXCEPT !.pc = "isFileAlreadyProcessed",
                                     !.queue = Tail(run.queue),
                                     !.filePath = Head(run.queue),
                                     !.fileHash = calculateFileHash(disk[Head(run.queue)]),
                                     !.calls = {"getFileInfo"},
                                     !.folder = run.folder,
                                     !.results = Append(run.results, run.outcome.result)]
                ELSE [IdleRun EXCEPT !.pc = "processAllFiles",
                                     !.folder = run.folder,
                                     !.results = Append(run.results, run.outcome.result)]]
    /\ UNCHANGED <<disk, files, devices, inventory, logs, started, writes, faults, overlapped>>

\* the caller's continuation: the watcher's callbacks, res.json of
\* /process/file, or the loop of processAllFiles, which pushes the result of
\* the file (the failure result when processFile has thrown) and goes on
\* with the next file or returns the results
Return(r) ==
    /\ runs[r].pc = "done"
    /\ LET run == runs[r]
           result == IF run.outcome.kind = "thrown"
                     THEN [NoResult EXCEPT !.errors =
                                <<ParseErrorOf("N/A", 0, run.outcome.error)>>]
                     ELSE run.outcome.result
       IN  runs' = [runs EXCEPT ![r] =
                IF run.folder = "" THEN IdleRun
                ELSE IF run.queue # <<>>
                THEN [IdleRun EXCEPT !.pc = "isFileAlreadyProcessed",
                                     !.queue = Tail(run.queue),
                                     !.filePath = Head(run.queue),
                                     !.fileHash = calculateFileHash(disk[Head(run.queue)]),
                                     !.calls = {"getFileInfo"},
                                     !.folder = run.folder,
                                     !.results = Append(run.results, result)]
                ELSE [IdleRun EXCEPT !.pc = "processAllFiles",
                                     !.folder = run.folder,
                                     !.results = Append(run.results, result)]]
    /\ UNCHANGED <<disk, files, devices, inventory, logs, started, writes, faults, overlapped>>

\* res.json({processed: results.length, results}) of /process/folder
Respond(r) ==
    /\ runs[r].pc = "processAllFiles"
    /\ runs' = [runs EXCEPT ![r] = IdleRun]
    /\ UNCHANGED <<disk, files, devices, inventory, logs, started, writes, faults, overlapped>>

Init ==
    /\ disk = [p \in Paths |-> <<"A">>]
    /\ runs = [r \in Slots |-> IdleRun]
    /\ files = <<>>
    /\ devices = <<>>
    /\ inventory = <<>>
    /\ logs = <<>>
    /\ started = 0
    /\ writes = 0
    /\ faults = 0
    /\ overlapped = FALSE

Step(r) ==
    \/ Gate(r)
    \/ Parse(r)
    \/ Register(r)
    \/ LoadDevices(r)
    \/ LogDevices(r)
    \/ LoadInventory(r)
    \/ LogInventory(r)
    \/ Complete(r)
    \/ CatchUpdateFileStatus(r)
    \/ CatchLogAutomation(r)
    \/ Return(r)

Next ==
    \/ \E r \in Slots, p \in Paths : WatcherAdd(r, p)
    \/ \E r \in Slots, p \in Paths : WatcherChange(r, p)
    \/ \E r \in Slots, p \in Paths : PostFile(r, p)
    \/ \E r \in Slots, folderPath \in DOMAIN ExcelFilesOfFolder : PostFolder(r, folderPath)
    \/ \E r \in Slots : Respond(r)
    \/ \E p \in Paths, c \in FixedContents : WriteFile(p, c)
    \/ \E r \in Slots : Step(r)

Spec == Init /\ [][Next]_vars

(***************************************************************************)
(* The extraction on its own: one invocation on a workbook of the family,  *)
(* no file saved meanwhile and no storage call throwing.                   *)
(***************************************************************************)
InitParse ==
    /\ \E c \in GeneratedContents : disk = [p \in Paths |-> c]
    /\ runs = [r \in Slots |-> IdleRun]
    /\ files = <<>>
    /\ devices = <<>>
    /\ inventory = <<>>
    /\ logs = <<>>
    /\ started = MaxRuns - 1
    /\ writes = MaxWrites
    /\ faults = MaxFaults
    /\ overlapped = FALSE

NextParse ==
    \/ \E r \in Slots, p \in Paths : PostFile(r, p)
    \/ \E r \in Slots : Gate(r)
    \/ \E r \in Slots : Parse(r)
    \/ \E r \in Slots : Register(r)
    \/ \E r \in Slots : LoadDevices(r)
    \/ \E r \in Slots : LogDevices(r)
    \/ \E r \in Slots : LoadInventory(r)
    \/ \E r \in Slots : LogInventory(r)
    \/ \E r \in Slots : Complete(r)
    \/ \E r \in Slots : Return(r)

SpecParse == InitParse /\ [][NextParse]_vars

(***************************************************************************)
(* The row transformation: POST /process/file on each of the two files,    *)
(* which hold the two rows of a pair in the two orders (or the same        *)
(* inventory row), with no fault of the storage, one call after the other  *)
(***************************************************************************)
InitRows ==
    /\ \/ \E pair \in RowPairs :
            disk = [p \in Paths |->
                        IF p = "data/Plan Blu.xlsx"
                        THEN <<"R">> \o pair[1] \o pair[2]
                        ELSE <<"R">> \o pair[2] \o pair[1]]
       \/ \E row \in ItemRows : disk = [p \in Paths |-> <<"J">> \o row]
    /\ runs = [r \in Slots |-> IdleRun]
    /\ files = <<>>
    /\ devices = <<>>
    /\ inventory = <<>>
    /\ logs = <<>>
    /\ started = MaxRuns - 2
    /\ writes = MaxWrites
    /\ faults = MaxFaults
    /\ overlapped = FALSE

SpecRows == InitRows /\ [][NextParse]_vars

(***************************************************************************)
(* The sheets: POST /process/file on each of the two files, which hold the *)
(* same workbook of the family of sheets, with no fault of the storage     *)
(* other than a rejected parameter, one call after the other               *)
(***************************************************************************)
InitSheets ==
    /\ \E c \in SheetContents : disk = [p \in Paths |-> c]
    /\ runs = [r \in Slots |-> IdleRun]
    /\ files = <<>>
    /\ devices = <<>>
    /\ inventory = <<>>
    /\ logs = <<>>
    /\ started = MaxRuns - 2
    /\ writes = MaxWrites
    /\ faults = MaxFaults
    /\ overlapped = FALSE

NextSheets ==
    \/ NextParse
    \/ \E r \in Slots : CatchUpdateFileStatus(r)
    \/ \E r \in Slots : CatchLogAutomation(r)

SpecSheets == InitSheets /\ [][NextSheets]_vars

(***************************************************************************)
(* Properties                                                              *)
(***************************************************************************)
\* the invocations processFile has not yet returned from or thrown out of
Running == {r \in Slots : runs[r].pc \notin {"idle", "done", "processAllFiles"}}

\* C1: after any sequence of processFile runs the devices table holds at
\* most one row per device_hash: upsertDevice overwrites the row of a
\* fingerprint that is already stored and inserts otherwise, also when one
\* batch carries the same fingerprint twice.
C1_OneRowPerFingerprint ==
    \A i, j \in 1..Len(devices) :
        devices[i].device_hash = devices[j].device_hash => i = j

\* a batch of two records with one fingerprint has been loaded into the empty
\* table: one insert, one update in place, one row
C1_Witness ==
    \E r \in Slots :
        /\ runs[r].pc = "logDevices"
        /\ Len(runs[r].parseResult.devices) = 2
        /\ runs[r].deviceResult = [inserted |-> 1, updated |-> 1, skipped |-> 0]
        /\ Len(devices) = 1

\* C2: when the lookup finds a COMPLETED row for the hash of the file,
\* processFile returns success with all counts zero and no errors, having
\* called none of parseExcelFile, registerProcessedFile, loadDevices and
\* loadInventory and having written nothing; and in every run the lookup
\* comes before the workbook is parsed.
C2_CompletedHashSkipped ==
    [][\A r \in Slots :
        /\ ( /\ runs[r].pc = "isFileAlreadyProcessed"
             /\ runs'[r].pc # "isFileAlreadyProcessed"
             /\ runs'[r].outcome.kind # "thrown"
             /\ \E i \in 1..Len(files) :
                    /\ files[i].file_hash = runs[r].fileHash
                    /\ files[i].status = "COMPLETED" )
           => /\ runs'[r].pc = "done"
              /\ runs'[r].outcome =
                    [kind |-> "returned", result |-> SkippedResult, error |-> NULL]
              /\ runs'[r].calls = {"getFileInfo", "isFileAlreadyProcessed"}
              /\ <<files, devices, inventory, logs>>' = <<files, devices, inventory, logs>>
        /\ "parseExcelFile" \in runs'[r].calls
           => "isFileAlreadyProcessed" \in runs[r].calls
      ]_vars

\* a run has been skipped on a hash that has a COMPLETED row
C2_Witness ==
    \E r \in Slots :
        /\ runs[r].pc = "done"
        /\ runs[r].outcome.kind = "returned"
        /\ runs[r].outcome.result = SkippedResult
        /\ "parseExcelFile" \notin runs[r].calls
        /\ \E i \in 1..Len(files) :
                files[i].file_hash = runs[r].fileHash /\ files[i].status = "COMPLETED"

\* C3, as amended: no row is ever PENDING; a row is created as PROCESSING;
\* afterwards its status changes from ERROR to PROCESSING (the same bytes
\* are processed again), from PROCESSING to COMPLETED or from PROCESSING to
\* ERROR, and, only once invocations have overlapped, also from COMPLETED to
\* PROCESSING, from COMPLETED to ERROR and from ERROR to COMPLETED.
C3_StatusChanges ==
    [][\A i \in 1..Len(files') :
        IF i > Len(files) THEN files'[i].status = "PROCESSING"
        ELSE \/ files'[i].status = files[i].status
             \/ <<files[i].status, files'[i].status>> \in
                    {<<"ERROR", "PROCESSING">>, <<"PROCESSING", "COMPLETED">>,
                     <<"PROCESSING", "ERROR">>}
             \/ /\ overlapped
                /\ <<files[i].status, files'[i].status>> \in
                    {<<"COMPLETED", "PROCESSING">>, <<"COMPLETED", "ERROR">>,
                     <<"ERROR", "COMPLETED">>}
      ]_vars

\* a row that ended in ERROR is PROCESSING again, with no invocations
\* overlapping
C3_Witness ==
    /\ ~overlapped
    /\ \E r \in Slots :
        /\ runs[r].pc = "loadDevices"
        /\ files[runs[r].fileId].status = "PROCESSING"
        /\ \E j \in 1..Len(logs) :
                logs[j].file_id = runs[r].fileId /\ logs[j].action = "ERROR"

\* C3, as stated: a row enters PROCESSING only from PENDING, enters COMPLETED
\* or ERROR only from PROCESSING, and never moves from COMPLETED or ERROR
\* back to PROCESSING; stated for invocations that do not overlap.
C3_AsStated ==
    [][~overlapped' =>
        \A i \in 1..Len(files) :
            \/ files'[i].status = files[i].status
            \/ <<files[i].status, files'[i].status>> \in
                    {<<"PENDING", "PROCESSING">>, <<"PROCESSING", "COMPLETED">>,
                     <<"PROCESSING", "ERROR">>}
      ]_vars

\* C4: if a run ends in the Error state, no device row and no inventory row
\* written by that run is visible; stated for the first invocation, before
\* which both tables are empty.
C4_AllOrNothing ==
    \A r \in Slots :
        ( /\ started = 1
          /\ runs[r].pc = "done"
          /\ runs[r].outcome.kind = "thrown"
          /\ runs[r].fileId # 0
          /\ files[runs[r].fileId].status = "ERROR" )
        => devices = <<>> /\ inventory = <<>>

\* C5: when a call of the try block has thrown, at the end of the run the
\* row of the file is ERROR with the message of the exception and the run
\* throws that same exception; stated for invocations that do not overlap.
C5_ErrorRecordedAndRethrown ==
    \A r \in Slots :
        (runs[r].pc = "done" /\ runs[r].error # NULL /\ ~overlapped)
        => /\ files[runs[r].fileId].status = "ERROR"
           /\ files[runs[r].fileId].error_message = runs[r].error
           /\ runs[r].outcome.kind = "thrown"
           /\ runs[r].outcome.error = runs[r].error

\* the devices table holds, for every fingerprint of the records parsed from
\* content c, the values of the last record with that fingerprint
Reflects(c, defaultBrand) ==
    LET cur == Parsed(c, defaultBrand).devices
    IN  \A k \in 1..Len(cur) :
            (\A l \in (k + 1)..Len(cur) : cur[l].device_hash # cur[k].device_hash)
            => \E i \in 1..Len(devices) :
                    /\ devices[i].device_hash = cur[k].device_hash
                    /\ \A col \in DeviceColumns : devices[i][col] = Param(cur[k], col)

\* the row was completed with the counts of the bytes its hash names (no
\* save came between the hashing and the parsing of the file)
LoadedAsHashed(row) ==
    /\ row.status = "COMPLETED"
    /\ row.devices_count = Len(Parsed(row.file_hash, BrandOf[row.file_path]).devices)
    /\ row.inventory_count =
            Len(Parsed(row.file_hash, BrandOf[row.file_path]).inventory)

\* C6: after processFile has returned on a file of which two versions have
\* been processed, the devices table reflects the rows the file has now;
\* stated for a file that is the only one processed, each version of which
\* was parsed from the bytes that were hashed, and for invocations that do
\* not overlap.
C6_StoreReflectsFile ==
    \A r \in Slots :
        ( /\ runs[r].pc = "done"
          /\ runs[r].outcome.kind = "returned"
          /\ ~overlapped
          /\ calculateFileHash(disk[runs[r].filePath]) = runs[r].fileHash
          /\ Len(files) = 2
          /\ \A i \in 1..Len(files) :
                files[i].file_path = runs[r].filePath /\ LoadedAsHashed(files[i]) )
        => Reflects(disk[runs[r].filePath], BrandOf[runs[r].filePath])

\* C7: no two processFile runs for the same file path are in flight at the
\* same time.
C7_OneRunPerPath ==
    \A r, q \in Running : runs[r].filePath = runs[q].filePath => r = q

\* C9: when parseExcelFile throws, processFile throws without having called
\* registerProcessedFile or any later storage call, and the step leaves
\* processed_files, devices, inventory and automation_logs as they were.
C9_UnreadableLeavesStore ==
    [][\A r \in Slots :
        (runs[r].pc = "parseExcelFile" /\ ~Workbook(disk[runs[r].filePath]).readable)
        => /\ runs'[r].pc \in {"parseExcelFile", "done"}
           /\ runs'[r].pc = "done" =>
                /\ runs'[r].outcome.kind = "thrown"
                /\ runs'[r].calls =
                        {"getFileInfo", "isFileAlreadyProcessed", "parseExcelFile"}
                /\ runs'[r].fileId = 0
                /\ <<files, devices, inventory, logs>>' =
                        <<files, devices, inventory, logs>>
      ]_vars

\* the first invocation has thrown out of parseExcelFile and the store is
\* still empty
C9_Witness ==
    \E r \in Slots :
        /\ runs[r].pc = "done"
        /\ runs[r].outcome.kind = "thrown"
        /\ "parseExcelFile" \in runs[r].calls
        /\ runs[r].fileId = 0
        /\ started = 1
        /\ files = <<>> /\ devices = <<>> /\ inventory = <<>> /\ logs = <<>>

(***************************************************************************)
(* Properties of the extraction, over the family of workbooks: what the    *)
(* kinds of the rows of content c say the sheet must yield                 *)
(***************************************************************************)
\* the header row: the first header among rows 1..5, 0 when there is none
ExpectedHeader(c) ==
    LET found == {i \in 1..5 : i < Len(c) /\ c[i + 1] = "hdr"}
    IN  IF found = {} THEN 0 ELSE MinOf(found)

RECURSIVE RowsAfter(_, _, _)
\* the rows after row i whose kind is in kinds, in row order
RowsAfter(c, i, kinds) ==
    IF i >= Len(c) - 1 THEN <<>>
    ELSE (IF c[i + 2] \in kinds THEN <<i + 1>> ELSE <<>>) \o RowsAfter(c, i + 1, kinds)

SheetNameOf(c) == IF c[1] = "D" THEN "Testing 1" ELSE "Inventory"

\* the records the run has extracted from the sheet of the family
RecordsOf(run) ==
    IF disk[run.filePath][1] = "D" THEN run.parseResult.devices
    ELSE run.parseResult.inventory

\* the records the run has extracted from the other sheet
OtherRecordsOf(run) ==
    IF disk[run.filePath][1] = "D" THEN run.parseResult.inventory
    ELSE run.parseResult.devices

Extracted == {r \in Slots : runs[r].pc \notin {"idle", "isFileAlreadyProcessed",
                                                 "parseExcelFile"}}

\* C8: a sheet with a header, n valid rows and k rows whose transformation
\* throws yields n records and k ParseErrors, each with the name of the sheet
\* and the number of its row; no exception leaves the extraction and the run
\* is not put in the Error state.
C8_ThrowingRowsContained ==
    \A r \in Extracted :
        LET c == disk[runs[r].filePath]
            h == ExpectedHeader(c)
            thrown == RowsAfter(c, h, {"r"})
            errors == runs[r].parseResult.errors
        IN  h > 0 =>
            /\ Len(RecordsOf(runs[r])) = Len(RowsAfter(c, h, {"v", "hdr"}))
            /\ Len(errors) = Len(thrown)
            /\ \A j \in 1..Len(errors) :
                    errors[j].sheet = SheetNameOf(c) /\ errors[j].row = thrown[j]
            /\ runs[r].outcome.kind # "thrown"
            /\ runs[r].error = NULL
            /\ \A i \in 1..Len(files) : files[i].status # "ERROR"

\* a run is COMPLETED on a devices sheet with a valid row and a throwing row
C8_Witness ==
    \E r \in Slots :
        /\ runs[r].pc = "done"
        /\ runs[r].outcome.kind = "returned"
        /\ disk[runs[r].filePath][1] = "D"
        /\ Len(runs[r].parseResult.devices) >= 1
        /\ Len(runs[r].parseResult.errors) >= 1
        /\ runs[r].parseResult.errors[1].row > 0
        /\ files[runs[r].fileId].status = "COMPLETED"

\* C10: the header of a sheet is its first row among rows 1..5 that maps at
\* least 3 columns (devices) or 2 columns (inventory); a sheet without one
\* yields no record and exactly one ParseError, of row 0, and the other sheet
\* of the workbook is extracted all the same.
C10_HeaderAmongFirstFive ==
    \A r \in Extracted :
        LET c == disk[runs[r].filePath]
            h == ExpectedHeader(c)
            errors == runs[r].parseResult.errors
        IN  /\ OtherRecordsOf(runs[r]) # <<>>
            /\ IF h = 0
               THEN /\ RecordsOf(runs[r]) = <<>>
                    /\ Len(errors) = 1
                    /\ errors[1].row = 0
                    /\ errors[1].sheet = SheetNameOf(c)
               ELSE /\ \A j \in 1..Len(errors) : errors[j].row > h
                    /\ Len(RecordsOf(runs[r])) = Len(RowsAfter(c, h, {"v", "hdr"}))

\* a run has extracted a workbook whose inventory sheet has its header on
\* row 6 or later
C10_Witness ==
    \E r \in Slots :
        /\ runs[r].pc = "done"
        /\ disk[runs[r].filePath][1] = "I"
        /\ ExpectedHeader(disk[runs[r].filePath]) = 0
        /\ Len(disk[runs[r].filePath]) > 6
        /\ runs[r].parseResult.inventory = <<>>
        /\ runs[r].parseResult.devices # <<>>
        /\ runs[r].parseResult.errors[1].row = 0

(***************************************************************************)
(* Properties of the row transformation, over the families of rows         *)
(***************************************************************************)
\* a cell of the families with nothing but spaces in it
BlankCell(cell) == cell \in {"", " ", "  "}

\* data row k (1 or 2) of the devices sheet of content c
RowOf(c, k) == SubSeq(c, 2 + (k - 1) * Len(RowHeader), 1 + k * Len(RowHeader))

\* the records a result holds for the sheet row rowIndex
RecordsAt(records, rowIndex) ==
    {j \in 1..Len(records) : records[j].row_index = rowIndex}

\* the runs that hold the result of parseExcelFile
Transformed == {r \in Slots : runs[r].parseResult.sheetCount > 0}

\* C11: every emitted record has its minimum fields, and a non-blank row
\* without them gives no record and no ParseError: a device row is emitted
\* exactly when its device or model cell is non-empty after trimming, an
\* inventory row exactly when one of model, tac, device_name, serial_number
\* and imei1 is.
C11_MinimumFields ==
    \A r \in Transformed :
        LET c == disk[runs[r].filePath]
            res == runs[r].parseResult
        IN  /\ \A j \in 1..Len(res.devices) :
                    \E f \in {"device", "model"} :
                        /\ f \in DOMAIN res.devices[j]
                        /\ res.devices[j][f] \notin {NULL, "", " ", "  "}
            /\ \A j \in 1..Len(res.inventory) :
                    \E f \in {"model", "tac", "device_name", "serial_number", "imei1"} :
                        /\ f \in DOMAIN res.inventory[j]
                        /\ res.inventory[j][f] \notin {NULL, "", " ", "  "}
            /\ res.errors = <<>>
            /\ c[1] = "R" =>
                    \A k \in 1..2 :
                        Cardinality(RecordsAt(res.devices, k + 1)) =
                            IF BlankCell(RowOf(c, k)[2]) /\ BlankCell(RowOf(c, k)[3])
                            THEN 0 ELSE 1
            /\ c[1] = "J" =>
                    Len(res.inventory) =
                        IF \A i \in 1..5 : BlankCell(c[i + 1]) THEN 0 ELSE 1

\* a devices row with every cell filled but device and model has been
\* dropped silently, and the run is COMPLETED with the other row
C11_Witness ==
    \E r \in Slots :
        /\ runs[r].pc = "done"
        /\ disk[runs[r].filePath][1] = "R"
        /\ RowOf(disk[runs[r].filePath], 1) =
                [[FullRow EXCEPT ![2] = ""] EXCEPT ![3] = " "]
        /\ Len(runs[r].parseResult.devices) = 1
        /\ runs[r].parseResult.errors = <<>>
        /\ files[runs[r].fileId].status = "COMPLETED"

\* an inventory row with only brand and remark has been dropped silently
C11_ItemDropped ==
    \E r \in Slots :
        /\ runs[r].pc = "done"
        /\ disk[runs[r].filePath] = <<"J", "", "", "", "", "", "Acme", "boxed">>
        /\ runs[r].parseResult.inventory = <<>>
        /\ runs[r].parseResult.errors = <<>>
        /\ files[runs[r].fileId].status = "COMPLETED"

\* the brand override processFile derives from the name of each file
OverrideOf(filePath) == IF filePath = "data/Plan Blu.xlsx" THEN "Blu" ELSE "Acme"

KeyFieldsOfDevice ==
    {"device", "model", "tac", "build", "target_region", "target_solution",
     "target_customer"}

\* a field of a record or of a stored row as it counts for identity:
\* lowercased and trimmed, a missing value as the empty string
Normalized(x, f) ==
    IF f \in DOMAIN x /\ x[f] # NULL THEN toLowerCase(trim(x[f])) ELSE ""

\* the device records in the state: those of the results the runs hold and
\* the rows of the devices table
SeenDevices ==
    UNION {{runs[r].parseResult.devices[j] : j \in 1..Len(runs[r].parseResult.devices)} :
                r \in Slots}
    \cup {devices[i] : i \in 1..Len(devices)}

SameKeys(a, b) == \A f \in KeyFieldsOfDevice : Normalized(a, f) = Normalized(b, f)

\* C13: two device records equal on the seven key fields, lowercased and
\* trimmed, have the same device_hash, whatever file, row, brand, override
\* or other field they have.
C13_SameKeysSameFingerprint ==
    \A a, b \in SeenDevices : SameKeys(a, b) => a.device_hash = b.device_hash

\* the file of brand Acme gives a record that has the fingerprint of a row
\* stored from the file of brand Blu, with the device name in another case
\* and with other comments
C13_Witness ==
    \E r \in Slots :
        /\ runs[r].pc = "loadDevices"
        /\ runs[r].filePath = "data/Plan_Acme.XLS"
        /\ disk[runs[r].filePath][1] = "R"
        /\ \E j \in 1..Len(runs[r].parseResult.devices), i \in 1..Len(devices) :
                /\ runs[r].parseResult.devices[j].brand = "Acme"
                /\ runs[r].parseResult.devices[j].device = "NOVA"
                /\ runs[r].parseResult.devices[j].comments = NULL
                /\ devices[i].device_hash = runs[r].parseResult.devices[j].device_hash
                /\ devices[i].brand = "Blu"
                /\ devices[i].device = "Nova"
                /\ devices[i].comments = "note"

\* C14: two device records that differ in a key field, lowercased and
\* trimmed, have different fingerprints.
C14_OtherKeysOtherFingerprint ==
    \A a, b \in SeenDevices : a.device_hash = b.device_hash => SameKeys(a, b)

\* C15: two device rows whose region cells list the same segments,
\* separated by commas, in two orders get the same normalized region and
\* the same fingerprint.
C15_OrderOfSegments ==
    \A r \in Transformed :
        LET c == disk[runs[r].filePath]
            found == runs[r].parseResult.devices
        IN  (c[1] = "R" /\ <<RowOf(c, 1), RowOf(c, 2)>> \in PermutedPairs)
            => /\ Len(found) = 2
               /\ found[1].target_region = found[2].target_region
               /\ found[1].device_hash = found[2].device_hash

\* region and customer cells and what the rule of normalization makes of
\* them
RegionExpected ==
    <<<<"BHAMAS, peru, Mxico", "Bahamas, Mexico, Peru">>,
      <<"Costa Rica and PANAMA", "Costa Rica, Panama">>,
      <<"el salvador/chile & X", "Chile, El Salvador">>,
      <<"peru\nCOLOMIBA", "Colombia, Peru">>,
      <<"dominicana", "República Dominicana">>,
      <<"a, Peru,, b ,", "Peru">>,
      <<"OM", "Latam Om">>,
      <<"latam om", "Latam Om">>,
      <<"puerto   rico", "Puerto Rico">>,
      <<"Zeta, alfa, Beta", "Alfa, Beta, Zeta">>,
      <<"Peru", "Peru">>,
      <<"Claro", "Claro">>>>

\* in every record of a devices sheet of the family, the field of column
\* col holds what expected gives for the text of the cell
CellsConverted(col, expected) ==
    \A r \in Transformed :
        LET c == disk[runs[r].filePath]
            found == runs[r].parseResult.devices
        IN  c[1] = "R" =>
                \A k \in 1..2, e \in 1..Len(expected) :
                    RowOf(c, k)[col] = expected[e][1] =>
                        \A j \in RecordsAt(found, k + 1) :
                            found[j][RowFields[col]] = expected[e][2]

C17_LatamCorrected ==
    /\ CellsConverted(6, <<<<"OM", "Latam Om">>, <<"Latam", "Latam Om">>>>)
    /\ CellsConverted(7, <<<<"OM", "Latam Om">>, <<"Latam", "Latam Om">>>>)

\* C18: the dual-SIM field is true exactly when the trimmed lowercased cell
\* is one of "y", "yes", "si", "s", "true" and "1", and false for every
\* other cell; stated for the cells that are not empty.
C18_DualSim ==
    CellsConverted(9,
        <<<<"y", TRUE_>>, <<"Y", TRUE_>>, <<"yes", TRUE_>>, <<" Yes ", TRUE_>>,
          <<"si", TRUE_>>, <<"SI", TRUE_>>, <<"s", TRUE_>>, <<"S", TRUE_>>,
          <<"true", TRUE_>>, <<"TRUE", TRUE_>>, <<"1", TRUE_>>,
          <<"n", FALSE_>>, <<"no", FALSE_>>, <<"0", FALSE_>>, <<"false", FALSE_>>,
          <<"x", FALSE_>>>>)

\* C19: in a date field a cell of the form YYYY-MM-DD is kept as it is, a
\* cell D/M/YYYY or D-M-YYYY is read as day, month, year and written as
\* YYYY-MM-DD with two digits each, and a cell that is no date at all gives
\* null; no ParseError is recorded for any of them.
C19_DateConverted ==
    /\ CellsConverted(10,
            <<<<"15/03/2024", "2024-03-15">>, <<"2024-03-15", "2024-03-15">>,
              <<"  2024-03-15 ", "2024-03-15">>, <<"not a date", NULL>>,
              <<"1-3-2024", "2024-03-01">>, <<"5/12/2024", "2024-12-05">>,
              <<"31-1-2024", "2024-01-31">>, <<"15/03/24", NULL>>>>)
    /\ \A r \in Transformed :
            disk[runs[r].filePath][1] = "R" => runs[r].parseResult.errors = <<>>

\* the row with the date "15/03/2024" is stored with the date "2024-03-15"
C19_Witness ==
    \E r \in Slots :
        /\ runs[r].pc = "done"
        /\ disk[runs[r].filePath][1] = "R"
        /\ RowOf(disk[runs[r].filePath], 2)[10] = "15/03/2024"
        /\ runs[r].parseResult.errors = <<>>
        /\ runs[r].fileId # 0
        /\ files[runs[r].fileId].status = "COMPLETED"
        /\ \E i \in 1..Len(devices) :
                /\ devices[i].source_file_id = runs[r].fileId
                /\ devices[i].row_index = 3
                /\ devices[i].approved_date = "2024-03-15"

\* the row with the date "not a date" is stored with no date
C19_NullReached ==
    \E r \in Slots :
        /\ runs[r].pc = "done"
        /\ disk[runs[r].filePath][1] = "R"
        /\ RowOf(disk[runs[r].filePath], 2)[10] = "not a date"
        /\ runs[r].fileId # 0
        /\ files[runs[r].fileId].status = "COMPLETED"
        /\ \E i \in 1..Len(devices) :
                /\ devices[i].source_file_id = runs[r].fileId
                /\ devices[i].row_index = 3
                /\ devices[i].approved_date = NULL

\* C20: the solution cell is split on comma only; in every segment "1.o"
\* and "1.O" become "1.0" and the segment is trimmed; empty segments are
\* dropped and the others joined with ", " in the order of the cell.
C20_SolutionNormalized ==
    CellsConverted(8,
        <<<<"DLC 1.o, DPC1.O", "DLC 1.0, DPC1.0">>, <<"DPC, DLC", "DPC, DLC">>,
          <<"b,a", "b, a">>, <<" ,x,, y ", "x, y">>,
          <<"DPC1.o1.O", "DPC1.01.0">>, <<"DLC and DPC", "DLC and DPC">>,
          <<"1.0", "1.0">>, <<"DLC", "DLC">>>>)

\* the row with the solution "DLC 1.o, DPC1.O" is stored with the solution
\* "DLC 1.0, DPC1.0"
C20_Witness ==
    \E r \in Slots :
        /\ runs[r].pc = "done"
        /\ disk[runs[r].filePath][1] = "R"
        /\ RowOf(disk[runs[r].filePath], 1)[8] = "DLC 1.o, DPC1.O"
        /\ runs[r].fileId # 0
        /\ files[runs[r].fileId].status = "COMPLETED"
        /\ \E i \in 1..Len(devices) :
                /\ devices[i].source_file_id = runs[r].fileId
                /\ devices[i].row_index = 2
                /\ devices[i].target_solution = "DLC 1.0, DPC1.0"

(***************************************************************************)
(* Properties of the sheets, over the family of sheets                     *)
(***************************************************************************)
\* the field the alias table gives each header cell of the family, read off
\* the table by hand: NULL for an ignored or unknown header
HeaderExpected ==
    {<<"Market Name", "device">>, <<"Model", "model">>, <<"Status", "status">>,
     <<"Unnamed: 4", NULL>>, <<" my STATUS OPTIONS ", NULL>>,
     <<"Device Name", "device">>, <<"Nombre Comercial", "device">>,
     <<"COMMENTS", "comments">>, <<"DPC/DLC", "target_solution">>,
     <<" tac ", "tac">>, <<"Foo", NULL>>, <<"", NULL>>,
     <<"Inventory Comments", "inventory_comments">>,
     <<"Model Name", "model">>, <<"Dual SIM", "dual_sim">>}

ExpectedField(header) == (CHOOSE e \in HeaderExpected : e[1] = header)[2]

\* the fields every emitted device record has besides the mapped ones
AddedFields == {"brand", "device_hash", "sheet_name", "row_index"}

\* C21: findFieldName gives no field for a header that contains an entry of
\* the ignore list, otherwise the first field of the alias table with an
\* alias equal to the header without regard to case, and no field when no
\* alias matches; createColumnMap maps exactly the columns that resolve, each
\* to its field, so the record of a data row has exactly those fields, each
\* with the cell of the last column that resolves to it.
C21_HeaderResolution ==
    \A r \in Transformed :
        LET c == disk[runs[r].filePath]
            header == Tail(c)
            cols == {i \in 1..Len(header) : ExpectedField(header[i]) # NULL}
            data == FamilySheets(c)[1].rows[2]
            LastOf(f) == CHOOSE i \in cols :
                            /\ ExpectedField(header[i]) = f
                            /\ \A j \in cols : ExpectedField(header[j]) = f => j <= i
        IN  c[1] = "H" =>
            /\ \A i \in 1..Len(header) : findFieldName(header[i]) = ExpectedField(header[i])
            /\ createColumnMap(header) = [i \in cols |-> ExpectedField(header[i])]
            /\ Len(runs[r].parseResult.devices) = 1
            /\ DOMAIN runs[r].parseResult.devices[1] =
                    {ExpectedField(header[i]) : i \in cols} \cup AddedFields
            /\ \A i \in cols :
                    runs[r].parseResult.devices[1][ExpectedField(header[i])] =
                        IF ExpectedField(header[i]) = "dual_sim" THEN FALSE_
                        ELSE data[LastOf(ExpectedField(header[i]))]

\* a run is COMPLETED on a sheet whose fourth header is a spelling listed
\* under two fields and whose fifth header is on the ignore list: the cell
\* under the fourth went to the earlier field, the cell under the fifth
\* nowhere
C21_Witness ==
    \E r \in Slots :
        /\ runs[r].pc = "done"
        /\ runs[r].fileId # 0
        /\ disk[runs[r].filePath] =
                <<"H", "Market Name", "Model", "Status", "Device Name", "Unnamed: 4">>
        /\ Len(runs[r].parseResult.devices) = 1
        /\ runs[r].parseResult.devices[1].device = "2024-03-14"
        /\ "device_name" \notin DOMAIN runs[r].parseResult.devices[1]
        /\ files[runs[r].fileId].status = "COMPLETED"

\* the sheet names of the family that hold "inventory" or "inventario" in
\* some letter case
InventoryNames == {"Inventory", "INVENTARIO 2024", "old inventory (2)"}

\* the model cell of the data row of sheet k of a workbook of two names
ModelOfSheet(k) == IF k = 1 THEN "N2" ELSE "V3"

\* C22: every worksheet goes to exactly one extraction, chosen by its name
\* alone: the inventory one if and only if the lowercased name contains
\* "inventory" or "inventario", the device one (with the brand override)
\* otherwise; the row of an inventory sheet gives an inventory record and no
\* device record, the row of a device sheet a device record and no inventory
\* record.
C22_SheetRouting ==
    \A r \in Transformed :
        LET c == disk[runs[r].filePath]
            res == runs[r].parseResult
            DevicesOf(k) == {j \in 1..Len(res.devices) :
                                res.devices[j].model = ModelOfSheet(k)}
            ItemsOf(k) == {j \in 1..Len(res.inventory) :
                                res.inventory[j].model = ModelOfSheet(k)}
        IN  c[1] = "N" =>
            /\ res.errors = <<>>
            /\ res.sheetCount = 2
            /\ \A k \in 1..2 :
                    IF c[k + 1] \in InventoryNames
                    THEN Cardinality(ItemsOf(k)) = 1 /\ DevicesOf(k) = {}
                    ELSE /\ Cardinality(DevicesOf(k)) = 1 /\ ItemsOf(k) = {}
                         /\ \A j \in DevicesOf(k) :
                                /\ res.devices[j].sheet_name = c[k + 1]
                                /\ res.devices[j].brand = OverrideOf(runs[r].filePath)

\* a run is COMPLETED on a workbook whose first sheet is named
\* "INVENTARIO 2024" and whose second sheet is named "Invent": the row of the
\* first is stored in the inventory table, the row of the second in the
\* devices table
C22_Witness ==
    \E r \in Slots :
        /\ runs[r].pc = "done"
        /\ runs[r].fileId # 0
        /\ disk[runs[r].filePath] = <<"N", "INVENTARIO 2024", "Invent">>
        /\ Len(runs[r].parseResult.inventory) = 1
        /\ Len(runs[r].parseResult.devices) = 1
        /\ \E i \in 1..Len(inventory) : inventory[i].model = "N2"
        /\ \E i \in 1..Len(devices) : devices[i].model = "V3"
        /\ files[runs[r].fileId].status = "COMPLETED"

\* the status each status cell of the family must give: the canonical
\* spelling of the state it names, NULL when it names none
StatusExpected ==
    {<<"Testing", "Testing">>, <<"testing", "Testing">>,
     <<" COMPLETED ", "Completed">>, <<"not started", "Not Started">>,
     <<"Issue", "Issue">>, <<"CANCELLED", "Cancelled">>,
     <<"Canceled", NULL>>, <<"Done", NULL>>, <<"In Progress", NULL>>,
     <<"Testing.", NULL>>, <<"", NULL>>}

\* C23: the status of every emitted device record is one of 'Not Started',
\* 'Testing', 'Completed', 'Issue', 'Cancelled' or absent; a status cell
\* that names one of them in any letter case, spaces around it or not, gives
\* its canonical spelling, and any other status cell gives an absent status,
\* no ParseError and no dropped row.
C23_StatusClosed ==
    \A r \in Transformed :
        LET c == disk[runs[r].filePath]
            res == runs[r].parseResult
        IN  /\ \A j \in 1..Len(res.devices) :
                    "status" \in DOMAIN res.devices[j] =>
                        res.devices[j].status \in
                            {"Not Started", "Testing", "Completed", "Issue",
                             "Cancelled", NULL}
            /\ c[1] = "R" =>
                    /\ res.errors = <<>>
                    /\ Len(res.devices) = 2
                    /\ \A e \in StatusExpected :
                            e[1] = RowOf(c, 1)[11] =>
                                \A j \in RecordsAt(res.devices, 2) :
                                    res.devices[j].status = e[2]

\* a run is COMPLETED on a sheet whose first row has the status "Done": the
\* row was emitted without a status, next to the other row and with no
\* ParseError
C23_Witness ==
    \E r \in Slots :
        /\ runs[r].pc = "done"
        /\ runs[r].fileId # 0
        /\ disk[runs[r].filePath][1] = "R"
        /\ RowOf(disk[runs[r].filePath], 1)[11] = "Done"
        /\ Len(runs[r].parseResult.devices) = 2
        /\ runs[r].parseResult.devices[1].row_index = 2
        /\ runs[r].parseResult.devices[1].status = NULL
        /\ runs[r].parseResult.errors = <<>>
        /\ files[runs[r].fileId].status = "COMPLETED"

(***************************************************************************)
(* Properties of the loads and of the runs                                 *)
(***************************************************************************)
\* the counts of a load of n records describe a step that created added rows
CountsDescribe(counts, skipped, n, added) ==
    /\ counts.inserted = added
    /\ counts.updated = n - added
    /\ counts.inserted + counts.updated + skipped = n

\* loadDevices: the counts of every committed call describe what the call did
\* to the devices table
DeviceCountsDescribe ==
    \A r \in Slots :
        (runs[r].pc = "loadDevices" /\ runs'[r].pc = "logDevices") =>
            CountsDescribe(runs'[r].deviceResult, runs'[r].deviceResult.skipped,
                           Len(runs[r].parseResult.devices),
                           Len(devices') - Len(devices))

\* loadInventory: the same for the inventory table (the call reports no
\* skipped count)
InventoryCountsDescribe ==
    \A r \in Slots :
        (runs[r].pc = "loadInventory" /\ runs'[r].pc = "logInventory") =>
            CountsDescribe(runs'[r].inventoryResult, 0,
                           Len(runs[r].parseResult.inventory),
                           Len(inventory') - Len(inventory))

\* the half of C24 that is about loadDevices
C24_DeviceCounts == [][DeviceCountsDescribe]_vars

\* C24: for loadDevices and for loadInventory alike, inserted is the number
\* of rows the call created, updated the number of records that overwrote an
\* existing fingerprint, and inserted + updated + skipped the number of
\* records passed in; stated for invocations that do not overlap.
C24_CountsDescribeStore ==
    [][~overlapped' => DeviceCountsDescribe /\ InventoryCountsDescribe]_vars

\* the runs that have registered the file and have terminated, with no
\* invocation overlapping another
Terminated == {r \in Slots : runs[r].pc = "done" /\ runs[r].fileId # 0 /\ ~overlapped}

\* C25: a run that has registered the file leaves the row COMPLETED when it
\* returns and ERROR when it throws; no run terminates with the row still
\* PROCESSING; stated for invocations that do not overlap.
C25_NoRunLeavesProcessing ==
    \A r \in Terminated :
        /\ runs[r].outcome.kind = "returned" => files[runs[r].fileId].status = "COMPLETED"
        /\ runs[r].outcome.kind = "thrown" => files[runs[r].fileId].status = "ERROR"
        /\ files[runs[r].fileId].status # "PROCESSING"

\* the same for the runs in which the updateFileStatus call of the catch
\* block has not thrown
C25_ButForCatchFaults ==
    \A r \in Terminated :
        runs[r].outcome.error # "updateFileStatus failed in catch" =>
            /\ runs[r].outcome.kind = "returned" => files[runs[r].fileId].status = "COMPLETED"
            /\ runs[r].outcome.kind = "thrown" => files[runs[r].fileId].status = "ERROR"

\* the valid Excel files of each folder, in the order of the listing, picked
\* by hand: of the six names in "data" only two have the extension .xlsx or
\* .xls in some letter case and a name that starts neither with "~$" nor
\* with "."; "missing" cannot be read
ExpectedFiles(folderPath) ==
    IF folderPath = "data" THEN <<"data/Plan Blu.xlsx", "data/Plan_Acme.XLS">>
    ELSE <<>>

\* the calls of processAllFiles
FolderRuns == {r \in Slots : runs[r].folder # ""}

\* the result processAllFiles pushes for a file whose processFile has thrown
IsFailureResult(result) ==
    /\ result.success = FALSE
    /\ result.devicesInserted = 0 /\ result.devicesUpdated = 0
    /\ result.devicesSkipped = 0
    /\ result.inventoryInserted = 0 /\ result.inventoryUpdated = 0
    /\ Len(result.errors) = 1
    /\ result.errors[1].sheet = "N/A" /\ result.errors[1].row = 0

\* the k-th valid file is processed after k - 1 results, and the call returns
\* one result per valid file: none for the folder that cannot be read
ResultsFollowListing ==
    \A r \in FolderRuns :
        LET expected == ExpectedFiles(runs[r].folder)
            done == Len(runs[r].results)
        IN  /\ IF runs[r].pc = "processAllFiles" THEN done = Len(expected)
               ELSE /\ done < Len(expected)
                    /\ runs[r].filePath = expected[done + 1]
                    /\ runs[r].queue = SubSeq(expected, done + 2, Len(expected))
            /\ \A k \in 1..done :
                    runs[r].results[k].success \/ IsFailureResult(runs[r].results[k])

\* processFile has returned or thrown: its result, or the failure result
\* with the message of the exception, is pushed, and the next file is started
ResultPushed ==
    \A r \in FolderRuns :
        (runs[r].pc = "done" /\ runs'[r] # runs[r]) =>
            /\ Len(runs'[r].results) = Len(runs[r].results) + 1
            /\ SubSeq(runs'[r].results, 1, Len(runs[r].results)) = runs[r].results
            /\ LET pushed == runs'[r].results[Len(runs'[r].results)]
               IN  IF runs[r].outcome.kind = "thrown"
                   THEN /\ IsFailureResult(pushed)
                        /\ pushed.errors[1].message = runs[r].outcome.error
                   ELSE pushed = runs[r].outcome.result
            /\ runs[r].queue # <<>> =>
                    /\ runs'[r].pc = "isFileAlreadyProcessed"
                    /\ runs'[r].filePath = Head(runs[r].queue)

\* C26: processAllFiles returns exactly one result per valid Excel file of
\* the folder (extension .xlsx or .xls in any letter case, name not starting
\* with "~$" or "."), in the order of the listing; a file whose processFile
\* throws gives a result with success = false, zero counts and one error
\* message and does not stop the files after it; a folder that cannot be read
\* gives an empty list and no exception.
C26_OneResultPerFile == []ResultsFollowListing /\ [][ResultPushed]_vars

\* processAllFiles has returned two results for the folder "data": the
\* first file has thrown, the file after it was loaded
C26_Witness ==
    \E r \in Slots :
        /\ runs[r].pc = "processAllFiles"
        /\ runs[r].folder = "data"
        /\ Len(runs[r].results) = 2
        /\ IsFailureResult(runs[r].results[1])
        /\ runs[r].results[2].success
        /\ runs[r].results[2].devicesInserted + runs[r].results[2].devicesUpdated > 0
        /\ \E i \in 1..Len(files) :
                files[i].file_path = "data/Plan_Acme.XLS" /\ files[i].status = "COMPLETED"

\* processAllFiles has returned no result for the folder that cannot be read
C26_MissingFolder ==
    \E r \in Slots :
        /\ runs[r].pc = "processAllFiles"
        /\ runs[r].folder = "missing"
        /\ runs[r].results = <<>>

\* the rows of processed_files with the hash, in a given status
RowsOfHash(fileHash, status) ==
    {i \in 1..Len(files) : files[i].file_hash = fileHash /\ files[i].status = status}

\* the lookup lets a run through when the hash has no COMPLETED row, its row
\* being ERROR or not: the run goes on to parse the file
ErrorDoesNotArmGate ==
    \A r \in Slots :
        ( /\ runs[r].pc = "isFileAlreadyProcessed"
          /\ runs'[r].pc # "isFileAlreadyProcessed"
          /\ runs'[r].outcome.kind # "thrown"
          /\ RowsOfHash(runs[r].fileHash, "COMPLETED") = {} )
        => /\ runs'[r].pc = "parseExcelFile"
           /\ runs'[r].outcome.kind = "none"

\* a run that returns after a run on the same bytes has ended in ERROR has
\* parsed and loaded the file, and the row of the hash, the only one, is
\* COMPLETED with no error message
RetryCompletesRow ==
    \A r \in Terminated :
        ( /\ runs[r].outcome.kind = "returned"
          /\ \E j \in 1..Len(logs) :
                logs[j].file_id = runs[r].fileId /\ logs[j].action = "ERROR" )
        => /\ {"parseExcelFile", "loadDevices", "loadInventory"} \subseteq runs[r].calls
           /\ files[runs[r].fileId].file_hash = runs[r].fileHash
           /\ files[runs[r].fileId].status = "COMPLETED"
           /\ files[runs[r].fileId].error_message = NULL
           /\ \A i \in 1..Len(files) :
                files[i].file_hash = runs[r].fileHash => i = runs[r].fileId

\* C27: a run that ended in ERROR does not arm the short circuit: the next
\* processFile on the same bytes is let through by the lookup, which matches
\* COMPLETED rows only, parses and loads the file again, and when it
\* succeeds the same row is COMPLETED with its error message cleared; stated
\* for invocations that do not overlap.
C27_RetryAfterError == []RetryCompletesRow /\ [][ErrorDoesNotArmGate]_vars

\* the second run on the bytes of workbook A has returned after the first
\* one ended in ERROR: one row, COMPLETED, without the message
C27_Witness ==
    \E r \in Terminated :
        /\ runs[r].outcome.kind = "returned"
        /\ runs[r].outcome.result.devicesInserted + runs[r].outcome.result.devicesUpdated > 0
        /\ Len(files) = 1
        /\ files[1].status = "COMPLETED"
        /\ files[1].error_message = NULL
        /\ \E j \in 1..Len(logs) : logs[j].file_id = 1 /\ logs[j].action = "ERROR"

\* the lookup finds a COMPLETED row of the hash that another path has
\* registered: the run is skipped with the zero-count result and writes
\* nothing
SkippedByHashAlone ==
    \A r \in Slots :
        ( /\ runs[r].pc = "isFileAlreadyProcessed"
          /\ runs'[r].pc # "isFileAlreadyProcessed"
          /\ runs'[r].outcome.kind # "thrown"
          /\ \E i \in RowsOfHash(runs[r].fileHash, "COMPLETED") :
                files[i].file_path # runs[r].filePath )
        => /\ runs'[r].pc = "done"
           /\ runs'[r].outcome =
                [kind |-> "returned", result |-> SkippedResult, error |-> NULL]
           /\ runs'[r].fileId = 0
           /\ <<files, devices, inventory, logs>>' = <<files, devices, inventory, logs>>

\* a hash has one row, which keeps the path that registered it first: the
\* path of a run skipped on the row of another path has no row of the hash
NoRowForSecondPath ==
    /\ \A i, j \in 1..Len(files) : files[i].file_hash = files[j].file_hash => i = j
    /\ \A r \in Slots :
        ( /\ runs[r].pc = "done"
          /\ runs[r].outcome.kind = "returned"
          /\ runs[r].fileId = 0 )
        => \A i \in 1..Len(files) :
                files[i].file_hash = runs[r].fileHash =>
                    \A j \in 1..Len(files) :
                        files[j].file_path = runs[r].filePath /\ files[i].file_path # runs[r].filePath
                            => files[j].file_hash # runs[r].fileHash

\* C28: the gate is keyed by the content hash alone: once the bytes have a
\* COMPLETED row, processFile on a file at another path with the same bytes
\* is skipped with the zero-count result, and no processed_files row is ever
\* created for that path and those bytes.
C28_GateByHashAlone == []NoRowForSecondPath /\ [][SkippedByHashAlone]_vars

\* the file of brand Acme, with the bytes of the COMPLETED file of brand
\* Blu, has been skipped: the only row is the one of the other path, and no
\* device of brand Acme is stored
C28_Witness ==
    \E r \in Slots :
        /\ runs[r].pc = "done"
        /\ runs[r].filePath = "data/Plan_Acme.XLS"
        /\ runs[r].outcome.result = SkippedResult
        /\ runs[r].outcome.kind = "returned"
        /\ Len(files) = 1
        /\ files[1].file_path = "data/Plan Blu.xlsx"
        /\ files[1].file_hash = runs[r].fileHash
        /\ files[1].status = "COMPLETED"
        /\ devices # <<>>
        /\ \A i \in 1..Len(devices) : devices[i].brand = "Blu"

(***************************************************************************)
(* Properties of the inventory fingerprint and of the dates, over the      *)
(* family of sheets                                                        *)
(***************************************************************************)
\* the fields one of which an inventory record must have to be kept
KeptFields == {"model", "tac", "device_name", "serial_number", "imei1"}

\* two records differ in a field: one has a value the other has not
Differ(a, b, f) == Param(a, f) # Param(b, f)

\* C29: two inventory records kept by the extractor that differ in one of
\* model, tac, device_name, serial_number and imei1 have different
\* inventory fingerprints, and the load stores a row for each.
C29_KeptFieldsInFingerprint ==
    \A r \in Transformed :
        LET items == runs[r].parseResult.inventory
        IN  /\ \A i, j \in 1..Len(items) :
                    (\E f \in KeptFields : Differ(items[i], items[j], f))
                        => items[i].inventory_hash # items[j].inventory_hash
            /\ (runs[r].pc = "done" /\ runs[r].fileId # 0) =>
                    \A i \in 1..Len(items) :
                        \E k \in 1..Len(inventory) :
                            \A f \in KeptFields :
                                inventory[k][f] = Param(items[i], f)

\* the half of C29 about the three kept fields that the fingerprint digests
C29_DigestedFields ==
    \A r \in Transformed :
        LET items == runs[r].parseResult.inventory
        IN  \A i, j \in 1..Len(items) :
                (\E f \in {"model", "serial_number", "imei1"} : Differ(items[i], items[j], f))
                    => items[i].inventory_hash # items[j].inventory_hash

(***************************************************************************)
(* C30: the dates of the emitted records                                   *)
(***************************************************************************)
\* the fields that convertValue hands to parseDate
DateFields ==
    {"approved_date", "initial_sw_schedule", "commercial_schedule",
     "sw_freeze_date", "initial_shipment_date", "initial_selling_date",
     "launch_date"}

\* the calendar dates among the texts a date cell of the sheets can become
CalendarDates == {"2024-03-14", "2024-03-15", "2024-02-29"}

\* C30: every value of a date field of an emitted device record is absent or
\* a calendar date written YYYY-MM-DD
C30_DatesAreCalendarDates ==
    \A r \in Transformed :
        \A k \in 1..Len(runs[r].parseResult.devices) :
            \A f \in DateFields :
                Param(runs[r].parseResult.devices[k], f) \in {NULL} \cup CalendarDates

\* C30: no date cell makes the storage reject the batch of its file
C30_NoBatchRejectedForDate ==
    /\ \A r \in Slots : runs[r].error # "date/time field value out of range"
    /\ \A i \in 1..Len(files) :
            files[i].error_message # "date/time field value out of range"

\* C30: every non-null value that parseDate produces is a calendar date
\* written YYYY-MM-DD, so that a date cell of one row never makes the storage
\* reject the batch and leave the run of the whole file in ERROR
C30_DateCellNeverFailsRun ==
    C30_DatesAreCalendarDates /\ C30_NoBatchRejectedForDate

==========================================================================
